---- MODULE Spec2Model ----
(***************************************************************************)
(* Model of the macro recorder (src/src/core.py, src/src/io_adapters.py).  *)
(*                                                                         *)
(* Three threads share one MacroRecorder:                                  *)
(*   - the main thread, which calls start_recording and stop_recording;    *)
(*   - the mouse listener thread (pynput), which runs _on_mouse_move,      *)
(*     _on_mouse_click and _on_mouse_scroll one callback at a time;        *)
(*   - the keyboard listener thread, which runs _on_key_event.             *)
(* Each statement of a handler that reads or writes shared state is one    *)
(* step; local computation is folded into the step that feeds it.          *)
(*                                                                         *)
(* Time is counted in ticks of 0.02 s, so min_move_time = 0.02 s is 1      *)
(* tick.  Positions are integer pairs , and the Euclidean distance is      *)
(* compared through its square (d > 5 iff d*d > 25 on integer pairs).      *)
(***************************************************************************)
EXTENDS Integers, Sequences, FiniteSets, Bags, TLC

(* ----------------------------- bounds ---------------------------------- *)
MaxTime == 3
MaxCallbacks == 3
MaxLen == 3           \* longest event list handed to the storage codec
MaxRecords == 2       \* longest macro file handed to the player

(* ------------------------ program constants ---------------------------- *)
min_move_distance == 5
min_move_time == 1
replay_delay == 25    \* 0.5 s
max_skips == 5        \* most move records skipped in a row
double_click_threshold == 15  \* 0.3 s
double_click_distance == 5

(* ---------------------------- input sets ------------------------------- *)
None == <<>>
(* Values a call returns to its caller: None, or an int. *)
PyNone == [kind |-> "None"]
PyInt(n) == [kind |-> "int", value |-> n]
Position(x, y) == <<x, y>>
Positions == {Position(0, 0), Position(3, 4), Position(6, 0)}
ClickButtons == {"LEFT"}
Keys == {"a"}
ScrollAmounts == {1}
ClickPositions == {Position(3, 4)}

(* Files: one in a directory that may have to be made, one in the working  *)
(* directory.  A file is absent, holds a JSON document (a list of          *)
(* records), or holds text that is not JSON.                               *)
Filenames == {"macros/test.json", "test.json"}
Parent(filename) == IF filename = "macros/test.json" THEN "macros" ELSE "."
Absent == [kind |-> "absent"]
Invalid == [kind |-> "invalid"]
Json(records) == [kind |-> "json", records |-> records]
NoResult == [op |-> "-"]
NoCall == [button |-> "-"]

VARIABLES
  events,             \* MacroRecorder.events
  last_recorded_pos,  \* MacroRecorder.last_recorded_pos (None or a Position)
  last_move_time,     \* MacroRecorder.last_move_time
  lock,               \* MacroRecorder.lock: "free" or the holding thread
  mouse_listener,     \* MouseInputAdapter.listener: "None", "running", "stopped"
  kbd_hooks,          \* number of hooks installed in the keyboard library
  now,                \* the last value returned by time.time()
  main_pc,            \* position of the main thread
  main_error,         \* an exception escaped a call made by the main thread
  main_return,        \* the value returned by the last call of the main thread
  m_pc,               \* position of the mouse listener thread
  m_position,         \* argument: position
  m_button,           \* argument: button (click)
  m_pressed,          \* argument: pressed (click)
  m_amount,           \* argument: amount (scroll)
  m_current_time,     \* local current_time of _on_mouse_move
  m_distance2,        \* local distance of _on_mouse_move, squared
  m_error,            \* the last mouse callback ended by raising
  k_pc,               \* position of the keyboard listener thread
  k_key,              \* argument: key
  k_pressed,          \* argument: pressed
  \* history variables (not program state)
  callbacks,          \* callbacks delivered so far (bounded by MaxCallbacks)
  started,            \* start_recording has been called
  stops,              \* 1 once stop_recording has returned since the last start
  st_case,            \* state in which the running stop_recording was called
  calls,              \* effects of the running main-thread call, in order
  delivered,          \* bag of callbacks of this recording that must be logged
  tainted,            \* a callback was in flight when the log was last reset
  moved,              \* a move sample was delivered since the last reset
  m_first,            \* the running move callback is the first since the reset
  \* the file system and the storage codec (src/src/storage.py)
  fs,                 \* content of each file: absent, a JSON document, invalid
  dirs,               \* the directories that exist
  storage_calls,      \* history: calls of MacroStorage.save_to_file by the session
  result,             \* outcome of the last storage call: raised error, value
  \* MacroPlayer (src/src/core.py)
  p_pc,               \* position of the thread that runs play
  p_events,           \* local events of play: the records loaded
  p_i,                \* index of the record the loop is at (from 1)
  speed_factor,       \* argument: speed_factor, a fraction <<n, d>> with d > 0
  skip_count,         \* local skip_count of play
  last_action_time,   \* local last_action_time of play
  last_click_positions, \* MacroPlayer.last_click_positions
  p_error,            \* the exception that ended the last play, or "None"
  \* history of the running (or last) call of play
  ui_calls,           \* countdowns shown
  sleeps,             \* calls of time.sleep: the settle delay, then the waits
  out_calls,          \* calls of the output adapter, in order
  detections,         \* results of _check_double_click, one per press
  dc,                 \* the last direct call of _check_double_click: arguments, result
  stale_clicks,       \* history: where the clicks were that the last start of a replay forgot
  \* the pynput listener and the command line (io_adapters.py, cli.py)
  raw,                \* the last sample pynput handed to handle_move/click/scroll
  cli_pc              \* position of MacroRecorderCLI.run

vars == <<events, last_recorded_pos, last_move_time, lock, mouse_listener,
          kbd_hooks, now, main_pc, main_error, m_pc, m_position, m_button,
          m_pressed, m_amount, m_current_time, m_distance2, m_error, k_pc,
          k_key, k_pressed, callbacks, started, stops, st_case, calls,
          delivered, tainted, moved, m_first, main_return, fs, dirs,
          storage_calls, result, p_pc, p_events, p_i, speed_factor,
          skip_count, last_action_time, last_click_positions, p_error,
          ui_calls, sleeps, out_calls, detections, dc, stale_clicks, raw,
          cli_pc>>

recorder == <<events, last_recorded_pos, last_move_time, lock>>
adapters == <<mouse_listener, kbd_hooks>>
main_vars == <<main_pc, main_error, main_return, started, stops, st_case,
               calls>>
m_args == <<m_position, m_button, m_pressed, m_amount>>
m_locals == <<m_current_time, m_distance2, m_first>>
m_vars == <<m_pc, m_args, m_locals, m_error>>
k_vars == <<k_pc, k_key, k_pressed>>
threads == <<mouse_listener, kbd_hooks, now, main_vars, m_vars, k_vars,
             callbacks, delivered, tainted, moved>>
storage_vars == <<fs, dirs, storage_calls, result>>
play_locals == <<p_events, p_i, speed_factor, skip_count, last_action_time>>
play_history == <<ui_calls, sleeps, out_calls, detections>>
player_vars == <<p_pc, play_locals, last_click_positions, p_error,
                 play_history, dc, stale_clicks>>
aside == <<raw, cli_pc>>
io_vars == <<storage_vars, player_vars, aside>>

(* ------------------------------ events --------------------------------- *)
(* The event objects of models.py: dataclasses, one per kind of input.      *)
MouseMoveEvent(timestamp, position) ==
  [class |-> "MouseMoveEvent", timestamp |-> timestamp, position |-> position]

MouseButtonEvent(timestamp, position, button, pressed) ==
  [class |-> "MouseButtonEvent", timestamp |-> timestamp,
   position |-> position, button |-> button, pressed |-> pressed]

MouseScrollEvent(timestamp, position, scroll_amount) ==
  [class |-> "MouseScrollEvent", timestamp |-> timestamp,
   position |-> position, scroll_amount |-> scroll_amount]

KeyboardEvent(timestamp, key, pressed) ==
  [class |-> "KeyboardEvent", timestamp |-> timestamp, key |-> key,
   pressed |-> pressed]

(* Position.distance_to, squared. *)
distance_to2(p, q) == (p[1] - q[1]) * (p[1] - q[1]) + (p[2] - q[2]) * (p[2] - q[2])

(* Variant: every member has the value of LEFT. *)
MouseButton_AllLeft ==
  [LEFT |-> "Button.left", RIGHT |-> "Button.left", MIDDLE |-> "Button.left"]

(* MouseButton: the members of the enumeration and their values. *)
MouseButton ==
  [LEFT |-> "Button.left", RIGHT |-> "Button.right", MIDDLE |-> "Button.middle"]

(* MouseButton.from_string: the first member, in the order of definition,  *)
(* whose value is the string; ValueError when there is none.               *)
from_string(button_str) ==
  IF MouseButton["LEFT"] = button_str THEN "LEFT"
  ELSE IF MouseButton["RIGHT"] = button_str THEN "RIGHT"
  ELSE IF MouseButton["MIDDLE"] = button_str THEN "MIDDLE"
  ELSE "ValueError"

(* Python tuples and lists are different values with the same items; a     *)
(* JSON array is written as the bare sequence of its items.                *)
PyTuple(items) == [py |-> "tuple", items |-> items]
PyList(items) == [py |-> "list", items |-> items]

(* to_dict of each event class. *)
MouseMoveEvent_to_dict(self) ==
  [action |-> "move", timestamp |-> self.timestamp,
   position |-> PyTuple(<<self.position[1], self.position[2]>>)]

(* Variant: released buttons are written as presses. *)
MouseButtonEvent_to_dict_AlwaysPress(self) ==
  [action |-> "press", timestamp |-> self.timestamp,
   button |-> MouseButton[self.button],
   position |-> PyTuple(<<self.position[1], self.position[2]>>)]

MouseButtonEvent_to_dict(self) ==
  [action |-> IF self.pressed THEN "press" ELSE "release",
   timestamp |-> self.timestamp,
   button |-> MouseButton[self.button],
   position |-> PyTuple(<<self.position[1], self.position[2]>>)]

MouseScrollEvent_to_dict(self) ==
  [action |-> "scroll", timestamp |-> self.timestamp,
   position |-> PyTuple(<<self.position[1], self.position[2]>>),
   scroll |-> self.scroll_amount]

KeyboardEvent_to_dict(self) ==
  [action |-> "key", timestamp |-> self.timestamp, key |-> self.key,
   event_type |-> IF self.pressed THEN "down" ELSE "up"]

(* event.to_dict(): the method of the event's own class. *)
to_dict(event) ==
  CASE event.class = "MouseMoveEvent" -> MouseMoveEvent_to_dict(event)
    [] event.class = "MouseButtonEvent" -> MouseButtonEvent_to_dict(event)
    [] event.class = "MouseScrollEvent" -> MouseScrollEvent_to_dict(event)
    [] event.class = "KeyboardEvent" -> KeyboardEvent_to_dict(event)

(* from_dict of each event class: the event built, or the error raised. *)
MouseMoveEvent_from_dict(data) ==
  [raised |-> "None",
   value |-> MouseMoveEvent(data.timestamp,
                            Position(data.position.items[1],
                                     data.position.items[2]))]

MouseButtonEvent_from_dict(data) ==
  LET button == from_string(data.button) IN
    IF button = "ValueError"
      THEN [raised |-> "ValueError", value |-> PyNone]
      ELSE [raised |-> "None",
            value |-> MouseButtonEvent(data.timestamp,
                                       Position(data.position.items[1],
                                                data.position.items[2]),
                                       button, data.action = "press")]

MouseScrollEvent_from_dict(data) ==
  [raised |-> "None",
   value |-> MouseScrollEvent(data.timestamp,
                              Position(data.position.items[1],
                                       data.position.items[2]),
                              data.scroll)]

(* Variant: the flag is read from the wrong word. *)
KeyboardEvent_from_dict_UpIsDown(data) ==
  [raised |-> "None",
   value |-> KeyboardEvent(data.timestamp, data.key, data.event_type = "up")]

KeyboardEvent_from_dict(data) ==
  [raised |-> "None",
   value |-> KeyboardEvent(data.timestamp, data.key,
                           data.event_type = "down")]

(* cls.from_dict(data) *)
from_dict(cls, data) ==
  CASE cls = "MouseMoveEvent" -> MouseMoveEvent_from_dict(data)
    [] cls = "MouseButtonEvent" -> MouseButtonEvent_from_dict(data)
    [] cls = "MouseScrollEvent" -> MouseScrollEvent_from_dict(data)
    [] cls = "KeyboardEvent" -> KeyboardEvent_from_dict(data)

(* d[key] = value on a dictionary. *)
DictSet(d, key, value) ==
  [k \in DOMAIN d \cup {key} |-> IF k = key THEN value ELSE d[k]]

(* json.dump of a list of dictionaries: a tuple is emitted as an array;    *)
(* numbers and strings are emitted as themselves.  The only tuple-valued   *)
(* entry of an event dictionary is its position.                           *)
json_dump(dicts) ==
  [i \in 1..Len(dicts) |->
     [k \in DOMAIN dicts[i] |->
        IF k = "position" THEN dicts[i][k].items ELSE dicts[i][k]]]

(* json.load of a document: an array is read back as a list. *)
json_load(records) ==
  [i \in 1..Len(records) |->
     [k \in DOMAIN records[i] |->
        IF k = "position" THEN PyList(records[i][k]) ELSE records[i][k]]]

(* ------------------------------- Init ---------------------------------- *)
InitThreads ==
  /\ last_recorded_pos = None
  /\ last_move_time = 0
  /\ lock = "free"
  /\ mouse_listener = "None"
  /\ kbd_hooks = 0
  /\ now = 1
  /\ main_pc = "idle"
  /\ main_error = FALSE
  /\ main_return = PyNone
  /\ m_pc = "idle"
  /\ m_position = None
  /\ m_button = "-"
  /\ m_pressed = FALSE
  /\ m_amount = 0
  /\ m_current_time = 0
  /\ m_distance2 = 0
  /\ m_error = FALSE
  /\ k_pc = "idle"
  /\ k_key = "-"
  /\ k_pressed = FALSE
  /\ callbacks = 0
  /\ started = FALSE
  /\ stops = 0
  /\ st_case = "-"
  /\ calls = <<>>
  /\ delivered = EmptyBag
  /\ tainted = FALSE
  /\ moved = FALSE
  /\ m_first = FALSE

(* No file exists yet; only the working directory does. *)
InitStorage ==
  /\ fs = [f \in Filenames |-> Absent]
  /\ dirs = {"."}
  /\ storage_calls = <<>>
  /\ result = NoResult

(* MacroPlayer.__init__; play has not been called. *)
InitPlayer ==
  /\ p_pc = "idle"
  /\ p_events = <<>>
  /\ p_i = 0
  /\ speed_factor = <<1, 1>>
  /\ skip_count = 0
  /\ last_action_time = 0
  /\ last_click_positions = <<>>
  /\ p_error = "None"
  /\ ui_calls = <<>>
  /\ sleeps = <<>>
  /\ out_calls = <<>>
  /\ detections = <<>>
  /\ dc = NoCall
  /\ stale_clicks = <<>>

(* No sample has been handed over; MacroRecorderCLI.run is not running. *)
InitAside ==
  /\ raw = [kind |-> "-", last |-> "-", logged |-> FALSE]
  /\ cli_pc = "-"

Init ==
  /\ events = <<>>
  /\ InitThreads
  /\ InitStorage
  /\ InitPlayer
  /\ InitAside

(* The clock is a single non-decreasing time source: a call of time.time()  *)
(* returns some value not below the value returned by the call before it.  *)
Clock == now..MaxTime

(* ------------------------- history helpers ----------------------------- *)
Range(s) == {s[i] : i \in DOMAIN s}
BagOfSeq(s) == [e \in Range(s) |-> Cardinality({i \in DOMAIN s : s[i] = e})]
Strip(e) == [f \in DOMAIN e \ {"timestamp"} |-> e[f]]
StripAll(s) == [i \in DOMAIN s |-> Strip(s[i])]
Expect(e) == delivered (+) SetToBag({Strip(e)})

(* --------------------------- mouse thread ------------------------------ *)
MouseCanDeliver ==
  /\ mouse_listener = "running"
  /\ m_pc = "idle"
  /\ callbacks < MaxCallbacks

(* A mouse callback returns (normally or by raising): its frame is gone. *)
MouseReturn(raised) ==
  /\ m_pc' = "idle"
  /\ m_position' = None
  /\ m_button' = "-"
  /\ m_pressed' = FALSE
  /\ m_amount' = 0
  /\ m_current_time' = 0
  /\ m_distance2' = 0
  /\ m_first' = FALSE
  /\ m_error' = raised

(* Variants of the throttle test with one comparison changed. *)
ShouldRecord_InvertedTime(distance2, time_diff) ==
  \/ distance2 > min_move_distance * min_move_distance
  \/ time_diff < min_move_time

ShouldRecord_Both(distance2, time_diff) ==
  /\ distance2 > min_move_distance * min_move_distance
  /\ time_diff > min_move_time

ShouldRecord_AtLeast(distance2, time_diff) ==
  \/ distance2 >= min_move_distance * min_move_distance
  \/ time_diff >= min_move_time

(* The throttle test of _on_mouse_move, on the squared distance. *)
ShouldRecord(distance2, time_diff) ==
  \/ distance2 > min_move_distance * min_move_distance
  \/ time_diff > min_move_time

(* _on_mouse_move(position) is called; current_time = time.time() *)
OnMouseMove_Call(position) ==
  /\ MouseCanDeliver
  /\ m_position' = position
  /\ \E t \in Clock : now' = t /\ m_current_time' = t
  /\ m_pc' = "mv_check"
  /\ m_error' = FALSE
  /\ m_first' = ~moved
  /\ moved' = TRUE
  /\ callbacks' = callbacks + 1
  /\ UNCHANGED <<recorder, adapters, main_vars, k_vars, m_button,
                 m_pressed, m_amount, m_distance2, delivered, tainted>>

(* The recorder's callback is called with a position on the screen. *)
OnMouseMove_Enter ==
  /\ \E p \in Positions : OnMouseMove_Call(p)
  /\ UNCHANGED io_vars

(* if self.last_recorded_pos is None *)
OnMouseMove_Check ==
  /\ m_pc = "mv_check"
  /\ m_pc' = IF last_recorded_pos = None THEN "mv_seed_pos" ELSE "mv_distance"
  /\ UNCHANGED <<io_vars, recorder, adapters, main_vars, k_vars, now, m_args, m_locals,
                 m_error, callbacks, delivered, tainted, moved>>

(* self.last_recorded_pos = position *)
OnMouseMove_SeedPos ==
  /\ m_pc = "mv_seed_pos"
  /\ last_recorded_pos' = m_position
  /\ m_pc' = "mv_seed_time"
  /\ UNCHANGED <<io_vars, events, last_move_time, lock, adapters, main_vars, k_vars,
                 now, m_args, m_locals, m_error, callbacks, delivered,
                 tainted, moved>>

(* Variant: the first sample is logged as an event as well. *)
OnMouseMove_SeedTime_Logged ==
  /\ m_pc = "mv_seed_time"
  /\ last_move_time' = m_current_time
  /\ events' = Append(events, MouseMoveEvent(m_current_time, m_position))
  /\ MouseReturn(FALSE)
  /\ UNCHANGED <<io_vars, last_recorded_pos, lock, adapters, main_vars, k_vars,
                 now, callbacks, delivered, tainted, moved>>

(* self.last_move_time = current_time; return *)
OnMouseMove_SeedTime ==
  /\ m_pc = "mv_seed_time"
  /\ last_move_time' = m_current_time
  /\ MouseReturn(FALSE)
  /\ UNCHANGED <<io_vars, events, last_recorded_pos, lock, adapters, main_vars, k_vars,
                 now, callbacks, delivered, tainted, moved>>

(* distance = position.distance_to(self.last_recorded_pos); a reference    *)
(* point that was reset to None in between makes distance_to raise, and    *)
(* the listener thread that ran the callback may end.                      *)
OnMouseMove_Distance ==
  /\ m_pc = "mv_distance"
  /\ IF last_recorded_pos = None
       THEN /\ MouseReturn(TRUE)
            /\ mouse_listener' \in {mouse_listener, "stopped"}
            /\ UNCHANGED kbd_hooks
       ELSE /\ m_distance2' = distance_to2(m_position, last_recorded_pos)
            /\ m_pc' = "mv_throttle"
            /\ UNCHANGED <<io_vars, adapters, m_args, m_current_time, m_first, m_error>>
  /\ UNCHANGED <<io_vars, recorder, main_vars, k_vars, now, callbacks,
                 delivered, tainted, moved>>

(* time_diff = current_time - self.last_move_time; the throttle test *)
OnMouseMove_Throttle ==
  /\ m_pc = "mv_throttle"
  /\ IF ShouldRecord(m_distance2, m_current_time - last_move_time)
       THEN /\ m_pc' = "mv_lock"
            /\ delivered' = Expect(MouseMoveEvent(0, m_position))
            /\ UNCHANGED <<io_vars, m_args, m_locals, m_error>>
       ELSE /\ MouseReturn(FALSE)
            /\ UNCHANGED delivered
  /\ UNCHANGED <<io_vars, recorder, adapters, main_vars, k_vars, now,
                 callbacks, tainted, moved>>

(* with self.lock: (acquire) *)
OnMouseMove_Acquire ==
  /\ m_pc = "mv_lock"
  /\ lock = "free"
  /\ lock' = "mouse"
  /\ m_pc' = "mv_append"
  /\ UNCHANGED <<io_vars, events, last_recorded_pos, last_move_time, adapters,
                 main_vars, k_vars, now, m_args, m_locals, m_error,
                 callbacks, delivered, tainted, moved>>

(* self.events.append(MouseMoveEvent(current_time, position)); release *)
OnMouseMove_Append ==
  /\ m_pc = "mv_append"
  /\ events' = Append(events, MouseMoveEvent(m_current_time, m_position))
  /\ lock' = "free"
  /\ m_pc' = "mv_set_pos"
  /\ UNCHANGED <<io_vars, last_recorded_pos, last_move_time, adapters, main_vars,
                 k_vars, now, m_args, m_locals, m_error, callbacks, delivered,
                 tainted, moved>>

(* self.last_recorded_pos = position *)
OnMouseMove_SetPos ==
  /\ m_pc = "mv_set_pos"
  /\ last_recorded_pos' = m_position
  /\ m_pc' = "mv_set_time"
  /\ UNCHANGED <<io_vars, events, last_move_time, lock, adapters, main_vars, k_vars,
                 now, m_args, m_locals, m_error, callbacks, delivered,
                 tainted, moved>>

(* self.last_move_time = current_time *)
OnMouseMove_SetTime ==
  /\ m_pc = "mv_set_time"
  /\ last_move_time' = m_current_time
  /\ MouseReturn(FALSE)
  /\ UNCHANGED <<io_vars, events, last_recorded_pos, lock, adapters, main_vars, k_vars,
                 now, callbacks, delivered, tainted, moved>>

(* _on_mouse_click(position, button, pressed) is called and waits for the  *)
(* lock                                                                    *)
OnMouseClick_Call(position, button, pressed) ==
  /\ MouseCanDeliver
  /\ m_position' = position
  /\ m_button' = button
  /\ m_pressed' = pressed
  /\ delivered' = Expect(MouseButtonEvent(0, position, button, pressed))
  /\ m_pc' = "ck_lock"
  /\ m_error' = FALSE
  /\ callbacks' = callbacks + 1
  /\ UNCHANGED <<recorder, adapters, main_vars, k_vars, now, m_amount,
                 m_locals, tainted, moved>>

OnMouseClick_Enter ==
  /\ \E p \in ClickPositions, b \in ClickButtons, pr \in BOOLEAN :
       OnMouseClick_Call(p, b, pr)
  /\ UNCHANGED io_vars

OnMouseClick_Acquire ==
  /\ m_pc = "ck_lock"
  /\ lock = "free"
  /\ lock' = "mouse"
  /\ m_pc' = "ck_append"
  /\ UNCHANGED <<io_vars, events, last_recorded_pos, last_move_time, adapters,
                 main_vars, k_vars, now, m_args, m_locals, m_error,
                 callbacks, delivered, tainted, moved>>

(* Variant: a click also moves the throttle's reference point. *)
OnMouseClick_Append_MovesReference ==
  /\ m_pc = "ck_append"
  /\ \E t \in Clock :
       /\ now' = t
       /\ events' = Append(events,
                       MouseButtonEvent(t, m_position, m_button, m_pressed))
  /\ lock' = "free"
  /\ last_recorded_pos' = m_position
  /\ MouseReturn(FALSE)
  /\ UNCHANGED <<io_vars, last_move_time, adapters, main_vars,
                 k_vars, callbacks, delivered, tainted, moved>>

(* self.events.append(MouseButtonEvent(time.time(), ...)); release *)
OnMouseClick_Append ==
  /\ m_pc = "ck_append"
  /\ \E t \in Clock :
       /\ now' = t
       /\ events' = Append(events,
                       MouseButtonEvent(t, m_position, m_button, m_pressed))
  /\ lock' = "free"
  /\ MouseReturn(FALSE)
  /\ UNCHANGED <<io_vars, last_recorded_pos, last_move_time, adapters, main_vars,
                 k_vars, callbacks, delivered, tainted, moved>>

(* _on_mouse_scroll(position, amount) is called and waits for the lock *)
OnMouseScroll_Call(position, amount) ==
  /\ MouseCanDeliver
  /\ m_position' = position
  /\ m_amount' = amount
  /\ m_pc' = "sc_lock"
  /\ m_error' = FALSE
  /\ callbacks' = callbacks + 1
  /\ UNCHANGED <<recorder, adapters, main_vars, k_vars, now, m_button,
                 m_pressed, m_locals, delivered, tainted, moved>>

OnMouseScroll_Enter ==
  /\ \E p \in ClickPositions, a \in ScrollAmounts : OnMouseScroll_Call(p, a)
  /\ UNCHANGED io_vars

OnMouseScroll_Acquire ==
  /\ m_pc = "sc_lock"
  /\ lock = "free"
  /\ lock' = "mouse"
  /\ m_pc' = "sc_append"
  /\ UNCHANGED <<io_vars, events, last_recorded_pos, last_move_time, adapters,
                 main_vars, k_vars, now, m_args, m_locals, m_error,
                 callbacks, delivered, tainted, moved>>

(* Variant: the lock stays held when the locked section raises. *)
OnMouseScroll_Append_KeepsLock ==
  /\ m_pc = "sc_append"
  /\ MouseReturn(TRUE)
  /\ mouse_listener' \in {mouse_listener, "stopped"}
  /\ UNCHANGED <<io_vars, events, last_recorded_pos, last_move_time, kbd_hooks,
                 main_vars, k_vars, now, callbacks, delivered,
                 tainted, moved, lock>>

(* timestamp=time(): core.py imports the module `time`, and calling a       *)
(* module raises TypeError before the event is built.  The with-statement  *)
(* releases the lock, nothing is appended, and the error reaches the       *)
(* listener thread, which may end.                                         *)
OnMouseScroll_Append ==
  /\ m_pc = "sc_append"
  /\ lock' = "free"
  /\ MouseReturn(TRUE)
  /\ mouse_listener' \in {mouse_listener, "stopped"}
  /\ UNCHANGED <<io_vars, events, last_recorded_pos, last_move_time, kbd_hooks,
                 main_vars, k_vars, now, callbacks, delivered,
                 tainted, moved>>

(* -------------------------- keyboard thread ---------------------------- *)
KeyReturn ==
  /\ k_pc' = "idle"
  /\ k_key' = "-"
  /\ k_pressed' = FALSE

(* _on_key_event is called and waits for the lock *)
OnKeyEvent_Enter ==
  /\ kbd_hooks > 0
  /\ k_pc = "idle"
  /\ callbacks < MaxCallbacks
  /\ \E k \in Keys, pr \in BOOLEAN :
       /\ k_key' = k
       /\ k_pressed' = pr
       /\ delivered' = Expect(KeyboardEvent(0, k, pr))
  /\ k_pc' = "ky_lock"
  /\ callbacks' = callbacks + 1
  /\ UNCHANGED <<io_vars, recorder, adapters, main_vars, m_vars, now, tainted, moved>>

OnKeyEvent_Acquire ==
  /\ k_pc = "ky_lock"
  /\ lock = "free"
  /\ lock' = "keyboard"
  /\ k_pc' = "ky_append"
  /\ UNCHANGED <<io_vars, events, last_recorded_pos, last_move_time, adapters,
                 main_vars, m_vars, now, k_key, k_pressed, callbacks,
                 delivered, tainted, moved>>

(* Variant: the key event replaces the log instead of extending it. *)
OnKeyEvent_Append_Overwrites ==
  /\ k_pc = "ky_append"
  /\ \E t \in Clock :
       /\ now' = t
       /\ events' = <<KeyboardEvent(t, k_key, k_pressed)>>
  /\ lock' = "free"
  /\ KeyReturn
  /\ UNCHANGED <<io_vars, last_recorded_pos, last_move_time, adapters, main_vars,
                 m_vars, callbacks, delivered, tainted, moved>>

(* self.events.append(KeyboardEvent(time.time(), key, pressed)); release *)
OnKeyEvent_Append ==
  /\ k_pc = "ky_append"
  /\ \E t \in Clock :
       /\ now' = t
       /\ events' = Append(events, KeyboardEvent(t, k_key, k_pressed))
  /\ lock' = "free"
  /\ KeyReturn
  /\ UNCHANGED <<io_vars, last_recorded_pos, last_move_time, adapters, main_vars,
                 m_vars, callbacks, delivered, tainted, moved>>

(* Variant: stop_listening without the `if self.listener` guard. *)
MouseStopListening_Unguarded(listener) ==
  IF listener # "None"
    THEN [listener |-> "stopped", raised |-> FALSE]
    ELSE [listener |-> listener, raised |-> TRUE]

(* ---------------------------- main thread ------------------------------ *)
(* MouseInputAdapter.stop_listening: the new listener state, and whether   *)
(* the call raised.                                                        *)
MouseStopListening(listener) ==
  IF listener # "None"
    THEN [listener |-> "stopped", raised |-> FALSE]
    ELSE [listener |-> listener, raised |-> FALSE]

(* start_recording is called; self.ui.show_countdown("record").  The       *)
(* caller starts a recording only when none is running.                     *)
StartRecording_Countdown ==
  /\ main_pc = "idle"
  /\ mouse_listener # "running"
  /\ kbd_hooks = 0
  /\ main_pc' = "sr_events"
  /\ started' = TRUE
  /\ stops' = 0
  /\ calls' = <<"show_countdown">>
  /\ main_error' = FALSE
  /\ UNCHANGED <<io_vars, recorder, adapters, main_return, st_case, m_vars,
                 k_vars, now, callbacks, delivered, tainted, moved>>

(* Variant: the log is not emptied. *)
StartRecording_ResetEvents_Keeps ==
  /\ main_pc = "sr_events"
  /\ main_pc' = "sr_pos"
  /\ calls' = Append(calls, "events")
  /\ delivered' = EmptyBag
  /\ tainted' = (m_pc # "idle" \/ k_pc # "idle")
  /\ moved' = FALSE
  /\ UNCHANGED <<io_vars, events, last_recorded_pos, last_move_time, lock, adapters,
                 main_error, main_return, started, stops, st_case, m_vars,
                 k_vars, now, callbacks>>

(* self.events = [] *)
StartRecording_ResetEvents ==
  /\ main_pc = "sr_events"
  /\ events' = <<>>
  /\ main_pc' = "sr_pos"
  /\ calls' = Append(calls, "events")
  /\ delivered' = EmptyBag
  /\ tainted' = (m_pc # "idle" \/ k_pc # "idle")
  /\ moved' = FALSE
  /\ UNCHANGED <<io_vars, last_recorded_pos, last_move_time, lock, adapters,
                 main_error, main_return, started, stops, st_case, m_vars,
                 k_vars, now, callbacks>>

(* self.last_recorded_pos = None *)
StartRecording_ResetPos ==
  /\ main_pc = "sr_pos"
  /\ last_recorded_pos' = None
  /\ main_pc' = "sr_time"
  /\ calls' = Append(calls, "last_recorded_pos")
  /\ UNCHANGED <<io_vars, events, last_move_time, lock, adapters, main_error,
                 main_return, started, stops, st_case, m_vars, k_vars, now,
                 callbacks, delivered, tainted, moved>>

(* self.last_move_time = 0.0 *)
StartRecording_ResetTime ==
  /\ main_pc = "sr_time"
  /\ last_move_time' = 0
  /\ main_pc' = "sr_mouse"
  /\ calls' = Append(calls, "last_move_time")
  /\ UNCHANGED <<io_vars, events, last_recorded_pos, lock, adapters, main_error,
                 main_return, started, stops, st_case, m_vars, k_vars, now,
                 callbacks, delivered, tainted, moved>>

(* self.mouse_adapter.start_listening() *)
StartRecording_StartMouse ==
  /\ main_pc = "sr_mouse"
  /\ mouse_listener' = "running"
  /\ main_pc' = "sr_keyboard"
  /\ calls' = Append(calls, "mouse.start_listening")
  /\ UNCHANGED <<io_vars, recorder, kbd_hooks, main_error, main_return, started,
                 stops, st_case, m_vars, k_vars, now, callbacks, delivered,
                 tainted, moved>>

(* self.keyboard_adapter.start_listening(); return *)
StartRecording_StartKeyboard ==
  /\ main_pc = "sr_keyboard"
  /\ kbd_hooks' = kbd_hooks + 1
  /\ main_pc' = "idle"
  /\ calls' = <<>>
  /\ UNCHANGED <<io_vars, recorder, mouse_listener, main_error, main_return,
                 started, stops, st_case, m_vars, k_vars, now, callbacks,
                 delivered, tainted, moved>>

(* stop_recording is called; self.mouse_adapter.stop_listening() *)
StopRecording_StopMouse ==
  /\ main_pc = "idle"
  /\ LET r == MouseStopListening(mouse_listener) IN
       /\ mouse_listener' = r.listener
       /\ main_error' = r.raised
       /\ main_pc' = IF r.raised THEN "idle" ELSE "st_keyboard"
       /\ st_case' = IF r.raised THEN "-"
                     ELSE IF ~started THEN "never"
                     ELSE IF stops > 0 THEN "again" ELSE "active"
       /\ calls' = IF r.raised THEN <<>> ELSE <<"mouse.stop_listening">>
  /\ UNCHANGED <<io_vars, recorder, kbd_hooks, main_return, started, stops,
                 m_vars, k_vars, now, callbacks, delivered, tainted, moved>>

(* self.keyboard_adapter.stop_listening(): keyboard.unhook_all();          *)
(* logger.info(... len(self.events) ...); the function ends without a      *)
(* return statement.                                                       *)
StopRecording_StopKeyboard ==
  /\ main_pc = "st_keyboard"
  /\ kbd_hooks' = 0
  /\ main_pc' = "idle"
  /\ main_return' = PyNone
  /\ stops' = 1
  /\ st_case' = "-"
  /\ calls' = <<>>
  /\ UNCHANGED <<io_vars, recorder, mouse_listener, main_error, started,
                 m_vars, k_vars, now, callbacks, delivered, tainted, moved>>

(* ---------------------------- specification ---------------------------- *)
OnMouseMove_Body ==
  \/ OnMouseMove_Check
  \/ OnMouseMove_SeedPos
  \/ OnMouseMove_SeedTime
  \/ OnMouseMove_Distance
  \/ OnMouseMove_Throttle
  \/ OnMouseMove_Acquire
  \/ OnMouseMove_Append
  \/ OnMouseMove_SetPos
  \/ OnMouseMove_SetTime

OnMouseMove ==
  \/ OnMouseMove_Enter
  \/ OnMouseMove_Body

OnMouseClick_Body ==
  \/ OnMouseClick_Acquire
  \/ OnMouseClick_Append

OnMouseClick ==
  \/ OnMouseClick_Enter
  \/ OnMouseClick_Body

OnMouseScroll_Body ==
  \/ OnMouseScroll_Acquire
  \/ OnMouseScroll_Append

OnMouseScroll ==
  \/ OnMouseScroll_Enter
  \/ OnMouseScroll_Body

OnKeyEvent ==
  \/ OnKeyEvent_Enter
  \/ OnKeyEvent_Acquire
  \/ OnKeyEvent_Append

StartRecording ==
  \/ StartRecording_Countdown
  \/ StartRecording_ResetEvents
  \/ StartRecording_ResetPos
  \/ StartRecording_ResetTime
  \/ StartRecording_StartMouse
  \/ StartRecording_StartKeyboard

StopRecording ==
  \/ StopRecording_StopMouse
  \/ StopRecording_StopKeyboard

Next ==
  \/ OnMouseMove
  \/ OnMouseClick
  \/ OnMouseScroll
  \/ OnKeyEvent
  \/ StartRecording
  \/ StopRecording

Spec == Init /\ [][Next]_vars

(* ------------- MouseInputAdapter.start_listening (io_adapters.py) ------ *)
(* The screen of the configuration, and the samples pynput hands to the    *)
(* handlers: the first and the last pixel of the screen, and a place just  *)
(* off the screen on each of its four sides; a button MouseButton knows    *)
(* and one it does not.                                                    *)
screen_width == 7
screen_height == 5
RawPositions ==
  {<<0, 0>>, <<screen_width - 1, screen_height - 1>>,
   <<0 - 1, 0>>, <<screen_width, 0>>, <<0, 0 - 1>>, <<0, screen_height>>}
RawButtons == {"Button.left", "Button.x1"}

(* No handler is running.  History: whether the last handler called the   *)
(* recorder, and whether a warning was ever logged.                        *)
NoHandler(last, logged) == [kind |-> "-", last |-> last, logged |-> logged]

(* Variant: the last column and row count one too many. *)
OnScreen_Inclusive(x, y) ==
  /\ 0 <= x /\ x <= screen_width
  /\ 0 <= y /\ y <= screen_height

(* 0 <= x < self.config.screen_width and 0 <= y < self.config.screen_height *)
OnScreen(x, y) ==
  /\ 0 <= x /\ x < screen_width
  /\ 0 <= y /\ y < screen_height

(* pynput calls a handler with a sample, on the listener thread, one call  *)
(* at a time.                                                              *)
HandlerCalled(sample) ==
  /\ mouse_listener = "running"
  /\ m_pc = "idle"
  /\ raw.kind = "-"
  /\ callbacks < MaxCallbacks
  /\ raw' = [sample EXCEPT !.last = raw.last, !.logged = raw.logged]
  /\ UNCHANGED <<recorder, threads, storage_vars, player_vars, cli_pc>>

Pynput_Move ==
  \E xy \in RawPositions :
    HandlerCalled([kind |-> "move", x |-> xy[1], y |-> xy[2], last |-> "-", logged |-> FALSE])

Pynput_Click ==
  \E xy \in RawPositions, button \in RawButtons, pressed \in BOOLEAN :
    HandlerCalled([kind |-> "click", x |-> xy[1], y |-> xy[2],
                   button |-> button, pressed |-> pressed, last |-> "-", logged |-> FALSE])

Pynput_Scroll ==
  \E xy \in RawPositions, dy \in ScrollAmounts :
    HandlerCalled([kind |-> "scroll", x |-> xy[1], y |-> xy[2], dy |-> dy,
                   last |-> "-", logged |-> FALSE])

(* The handler returns without calling the recorder. *)
NotForwarded ==
  UNCHANGED <<recorder, threads>>

(* handle_move(x, y) *)
HandleMove ==
  /\ raw.kind = "move"
  /\ IF OnScreen(raw.x, raw.y)
       THEN /\ raw' = NoHandler("forwarded", raw.logged)
            /\ OnMouseMove_Call(Position(raw.x, raw.y))
       ELSE /\ raw' = NoHandler("returned", raw.logged)
            /\ NotForwarded
  /\ UNCHANGED <<storage_vars, player_vars, cli_pc>>

(* Variant: a button MouseButton does not know is taken for the left one. *)
HandleClick_Lenient ==
  /\ raw.kind = "click"
  /\ IF OnScreen(raw.x, raw.y)
       THEN LET mouse_button == from_string(raw.button) IN
              /\ raw' = NoHandler("forwarded", raw.logged)
              /\ IF mouse_button = "ValueError"
                   THEN OnMouseClick_Call(Position(raw.x, raw.y), "LEFT",
                                          raw.pressed)
                   ELSE OnMouseClick_Call(Position(raw.x, raw.y),
                                          mouse_button, raw.pressed)
       ELSE /\ raw' = NoHandler("returned", raw.logged)
            /\ NotForwarded
  /\ UNCHANGED <<storage_vars, player_vars, cli_pc>>

(* handle_click(x, y, button, pressed): MouseButton.from_string(str(button)) *)
(* raises ValueError for a button it does not know; the handler catches it  *)
(* and logs a warning.                                                     *)
HandleClick ==
  /\ raw.kind = "click"
  /\ IF OnScreen(raw.x, raw.y)
       THEN LET mouse_button == from_string(raw.button) IN
              IF mouse_button = "ValueError"
                THEN /\ raw' = NoHandler("returned", TRUE)
                     /\ NotForwarded
                ELSE /\ raw' = NoHandler("forwarded", raw.logged)
                     /\ OnMouseClick_Call(Position(raw.x, raw.y),
                                          mouse_button, raw.pressed)
       ELSE /\ raw' = NoHandler("returned", raw.logged)
            /\ NotForwarded
  /\ UNCHANGED <<storage_vars, player_vars, cli_pc>>

(* handle_scroll(x, y, dx, dy) *)
HandleScroll ==
  /\ raw.kind = "scroll"
  /\ IF OnScreen(raw.x, raw.y)
       THEN /\ raw' = NoHandler("forwarded", raw.logged)
            /\ OnMouseScroll_Call(Position(raw.x, raw.y), raw.dy)
       ELSE /\ raw' = NoHandler("returned", raw.logged)
            /\ NotForwarded
  /\ UNCHANGED <<storage_vars, player_vars, cli_pc>>

(* A recording is started, and from then on pynput hands samples to the    *)
(* handlers, which run, and through them the recorder's callbacks, on the  *)
(* listener thread.                                                        *)
AdapterNext ==
  \/ StartRecording
  \/ Pynput_Move
  \/ Pynput_Click
  \/ Pynput_Scroll
  \/ HandleMove
  \/ HandleClick
  \/ HandleScroll
  \/ OnMouseMove_Body
  \/ OnMouseClick_Body
  \/ OnMouseScroll_Body

AdapterSpec == Init /\ [][AdapterNext]_vars

(* -------------------- MacroRecorderCLI, record (cli.py) ---------------- *)
(* MacroRecorderCLI.__init__ installs signal_handler for SIGINT (line 26), *)
(* so Ctrl+C no longer raises KeyboardInterrupt in the main thread: the    *)
(* handler runs there instead, between two instructions of run.  The       *)
(* interrupt is taken while _run_record waits in its loop (lines 115-116). *)

(* main: MacroRecorderCLI().run() with the command record; _run_record.    *)
Cli_RunRecord ==
  /\ cli_pc = "-"
  /\ cli_pc' = "record"
  /\ UNCHANGED <<recorder, threads, storage_vars, player_vars, raw>>

(* self.recorder.start_recording() *)
Cli_StartRecording ==
  /\ cli_pc = "record"
  /\ StartRecording

(* start_recording: self.keyboard_adapter.start_listening() raises: the     *)
(* keyboard library refuses to install its hook (keyboard_hooks.hook,      *)
(* io_adapters.py:90; on Linux it needs root).  The mouse listener was     *)
(* started the line before.  The error is not a KeyboardInterrupt (line    *)
(* 118), so it leaves _run_record; run logs it (lines 99-100) and goes on  *)
(* to its finally clause.                                                  *)
Cli_StartRecording_Raises ==
  /\ cli_pc = "record"
  /\ main_pc = "sr_keyboard"
  /\ main_pc' = "idle"
  /\ main_error' = TRUE
  /\ calls' = <<>>
  /\ cli_pc' = "finally"
  /\ UNCHANGED <<recorder, adapters, now, main_return, started, stops,
                 st_case, m_vars, k_vars, callbacks, delivered, tainted,
                 moved, storage_vars, player_vars, raw>>

(* The listener threads deliver clicks and keys until the process exits. *)
Cli_Callbacks ==
  /\ cli_pc # "exited"
  /\ \/ OnMouseClick
     \/ OnKeyEvent

(* Ctrl+C while sleep(0.1) runs: signal_handler is called;                  *)
(* self.cleanup_keyboard_state() releases ctrl and unhooks every hook.     *)
Cli_SignalHandler ==
  /\ cli_pc = "record"
  /\ started
  /\ main_pc = "idle"
  /\ kbd_hooks' = 0
  /\ cli_pc' = "handler"
  /\ UNCHANGED <<recorder, mouse_listener, now, main_vars, m_vars, k_vars,
                 callbacks, delivered, tainted, moved, storage_vars,
                 player_vars, raw>>

(* signal_handler: self.recorder.stop_recording() *)
Cli_SignalHandler_Stop ==
  /\ cli_pc = "handler"
  /\ stops = 0
  /\ StopRecording

(* signal_handler: sys.exit(0).  SystemExit is raised inside the loop of   *)
(* _run_record; it is not a KeyboardInterrupt (line 118, line 97) and not  *)
(* an Exception (line 99), so no except clause runs: stop_recording of     *)
(* line 119 and save_recording of line 191 are passed over.                *)
Cli_SignalHandler_Exit ==
  /\ cli_pc = "handler"
  /\ stops = 1
  /\ main_pc = "idle"
  /\ cli_pc' = "finally"
  /\ UNCHANGED <<recorder, threads, storage_vars, player_vars, raw>>

(* run: finally: self.cleanup_keyboard_state(); the process exits with 0. *)
Cli_Finally ==
  /\ cli_pc = "finally"
  /\ kbd_hooks' = 0
  /\ cli_pc' = "exited"
  /\ UNCHANGED <<recorder, mouse_listener, now, main_vars, m_vars, k_vars,
                 callbacks, delivered, tainted, moved, storage_vars,
                 player_vars, raw>>

CliNext ==
  \/ Cli_RunRecord
  \/ Cli_StartRecording
  \/ Cli_StartRecording_Raises
  \/ Cli_Callbacks
  \/ Cli_SignalHandler
  \/ Cli_SignalHandler_Stop
  \/ Cli_SignalHandler_Exit
  \/ Cli_Finally

CliSpec == Init /\ [][CliNext]_vars

(* ------------------------- storage (storage.py) ------------------------ *)
(* The event lists handed to the codec: up to MaxLen events in any order,  *)
(* one of each kind of event, at one of two ticks, so that the time        *)
(* differences are negative, zero and positive.                            *)
StorageEvents ==
  {MouseMoveEvent(1, Position(3, 4)),
   MouseButtonEvent(2, Position(3, 4), "LEFT", TRUE),
   MouseButtonEvent(2, Position(3, 4), "RIGHT", FALSE),
   MouseButtonEvent(1, Position(3, 4), "MIDDLE", TRUE),
   MouseScrollEvent(2, Position(3, 4), 1),
   KeyboardEvent(1, "a", TRUE),
   KeyboardEvent(2, "a", FALSE)}
Logs == UNION {[1..n -> StorageEvents] : n \in 0..MaxLen}

(* What the operating system does with the calls of one save. *)
IoOutcomes(filename) ==
  {"ok", "open_fails", "write_fails"}
    \cup (IF Parent(filename) \in dirs THEN {} ELSE {"mkdir_fails"})

RECURSIVE SerializeFrom_FromFirst(_, _, _)
(* Variant: prev_timestamp is never advanced. *)
SerializeFrom_FromFirst(evs, i, prev_timestamp) ==
  IF i > Len(evs) THEN <<>>
  ELSE <<DictSet(to_dict(evs[i]), "time_diff",
                 evs[i].timestamp - prev_timestamp)>>
         \o SerializeFrom_FromFirst(evs, i + 1, prev_timestamp)

RECURSIVE SerializeFrom(_, _, _)
(* The loop of save_to_file from the i-th event on: event_dict =           *)
(* event.to_dict(); event_dict["time_diff"] = event.timestamp -            *)
(* prev_timestamp; append; prev_timestamp = event.timestamp.               *)
SerializeFrom(evs, i, prev_timestamp) ==
  IF i > Len(evs) THEN <<>>
  ELSE <<DictSet(to_dict(evs[i]), "time_diff",
                 evs[i].timestamp - prev_timestamp)>>
         \o SerializeFrom(evs, i + 1, evs[i].timestamp)

(* Variant: prev_timestamp starts at 0. *)
serializable_events_FromZero(evs) ==
  IF evs # <<>> THEN SerializeFrom(evs, 1, 0) ELSE <<>>

(* serializable_events as save_to_file builds it:                          *)
(* if events: prev_timestamp = events[0].timestamp; for event in events... *)
serializable_events(evs) ==
  IF evs # <<>> THEN SerializeFrom(evs, 1, evs[1].timestamp) ELSE <<>>

(* MacroStorage.save_to_file(evs, filename): make the parent directory,    *)
(* build the records, open the file for writing and dump them.  An error   *)
(* of open or of the write is logged and raised again; a failed write      *)
(* leaves a truncated file behind.                                         *)
save_to_file(evs, filename, outcome) ==
  LET made == dirs \cup {Parent(filename)}
      document == Json(json_dump(serializable_events(evs)))
  IN CASE outcome = "mkdir_fails" ->
            [fs |-> fs, dirs |-> dirs, raised |-> "OSError"]
       [] outcome = "open_fails" ->
            [fs |-> fs, dirs |-> made, raised |-> "OSError"]
       [] outcome = "write_fails" ->
            [fs |-> [fs EXCEPT ![filename] = Invalid], dirs |-> made,
             raised |-> "OSError"]
       [] outcome = "ok" ->
            [fs |-> [fs EXCEPT ![filename] = document], dirs |-> made,
             raised |-> "None"]

(* Variant: both failures of a load raise the same error. *)
load_from_file_OneError(content) ==
  CASE content.kind = "absent" ->
         [raised |-> "FileNotFoundError", value |-> PyNone]
    [] content.kind = "invalid" ->
         [raised |-> "FileNotFoundError", value |-> PyNone]
    [] content.kind = "json" ->
         [raised |-> "None", value |-> PyList(json_load(content.records))]

(* MacroStorage.load_from_file on a file with the given content: open      *)
(* raises FileNotFoundError, json.load raises json.JSONDecodeError; both   *)
(* are logged and raised again.                                            *)
load_from_file(content) ==
  CASE content.kind = "absent" ->
         [raised |-> "FileNotFoundError", value |-> PyNone]
    [] content.kind = "invalid" ->
         [raised |-> "JSONDecodeError", value |-> PyNone]
    [] content.kind = "json" ->
         [raised |-> "None", value |-> PyList(json_load(content.records))]

(* A direct call MacroStorage.save_to_file(events, filename). *)
SaveToFile(filename) ==
  \E outcome \in IoOutcomes(filename) :
    LET r == save_to_file(events, filename, outcome) IN
      /\ fs' = r.fs
      /\ dirs' = r.dirs
      /\ storage_calls' = <<>>
      /\ result' = [op |-> "save_to_file", filename |-> filename,
                    raised |-> r.raised, value |-> PyNone]
      /\ UNCHANGED <<recorder, threads, player_vars, aside>>

(* A call MacroStorage.load_from_file(filename). *)
LoadFromFile(filename) ==
  LET r == load_from_file(fs[filename]) IN
    /\ result' = [op |-> "load_from_file", filename |-> filename,
                  raised |-> r.raised, value |-> r.value]
    /\ storage_calls' = <<>>
    /\ UNCHANGED <<recorder, threads, player_vars, aside, fs, dirs>>

(* Variant: the log is handed to the codec even when it is empty. *)
SaveRecording_AlwaysSaves(filename) ==
  \E outcome \in IoOutcomes(filename) :
    LET r == save_to_file(events, filename, outcome) IN
      /\ fs' = r.fs
      /\ dirs' = r.dirs
      /\ storage_calls' = <<[events |-> events, filename |-> filename]>>
      /\ result' = [op |-> "save_recording", filename |-> filename,
                    raised |-> r.raised, value |-> PyNone]
      /\ UNCHANGED <<recorder, threads, player_vars, aside>>

(* MacroRecorder.save_recording(filename): if not self.events: warn and     *)
(* return; else MacroStorage.save_to_file(self.events, filename).           *)
SaveRecording(filename) ==
  IF events = <<>>
    THEN /\ storage_calls' = <<>>
         /\ result' = [op |-> "save_recording", filename |-> filename,
                       raised |-> "None", value |-> PyNone]
         /\ UNCHANGED <<recorder, threads, player_vars, aside, fs, dirs>>
    ELSE \E outcome \in IoOutcomes(filename) :
           LET r == save_to_file(events, filename, outcome) IN
             /\ fs' = r.fs
             /\ dirs' = r.dirs
             /\ storage_calls' = <<[events |-> events, filename |-> filename]>>
             /\ result' = [op |-> "save_recording", filename |-> filename,
                           raised |-> r.raised, value |-> PyNone]
             /\ UNCHANGED <<recorder, threads, player_vars, aside>>

(* The session holds a list of events and is not recording; no file       *)
(* exists yet.                                                             *)
StorageInit ==
  /\ events \in Logs
  /\ InitThreads
  /\ InitStorage
  /\ InitPlayer
  /\ InitAside

SaveRecordingCall == \E filename \in Filenames : SaveRecording(filename)
SaveToFileCall == \E filename \in Filenames : SaveToFile(filename)
LoadFromFileCall == \E filename \in Filenames : LoadFromFile(filename)

StorageNext ==
  \/ SaveRecordingCall
  \/ SaveToFileCall
  \/ LoadFromFileCall

StorageSpec == StorageInit /\ [][StorageNext]_vars

(* ------------------- the event classes on their own (models.py) -------- *)
(* Events of the four classes: every timestamp of the clock, positions,    *)
(* the three buttons, both flags, scroll amounts of either sign, two keys. *)
ModelEvents ==
  {MouseMoveEvent(t, p) : t \in 0..MaxTime, p \in Positions}
    \cup {MouseButtonEvent(t, p, b, pr) :
            t \in 0..MaxTime, p \in Positions, b \in DOMAIN MouseButton,
            pr \in BOOLEAN}
    \cup {MouseScrollEvent(t, p, a) :
            t \in 0..MaxTime, p \in Positions, a \in {0 - 1, 0, 1}}
    \cup {KeyboardEvent(t, k, pr) :
            t \in 0..MaxTime, k \in {"a", "ctrl"}, pr \in BOOLEAN}

(* One event is at hand. *)
ModelsInit ==
  /\ \E e \in ModelEvents : events = <<e>>
  /\ InitThreads
  /\ InitStorage
  /\ InitPlayer
  /\ InitAside

(* type(e).from_dict(e.to_dict()) *)
RoundTrip ==
  /\ result.op = "-"
  /\ LET e == events[1]
         r == from_dict(e.class, to_dict(e))
     IN result' = [op |-> "from_dict", raised |-> r.raised, value |-> r.value]
  /\ UNCHANGED <<recorder, threads, fs, dirs, storage_calls, player_vars,
                 aside>>

ModelsNext == RoundTrip

ModelsSpec == ModelsInit /\ [][ModelsNext]_vars

(* --------------------------- MacroPlayer (core.py) --------------------- *)
Min(a, b) == IF a < b THEN a ELSE b
Max(a, b) == IF a > b THEN a ELSE b

(* speed_factor is a float; the model takes the fractions -1, 0, 1/2, 1,   *)
(* 3/2 and 2, written <<numerator, denominator>>.                          *)
SpeedFactors == {<<0 - 1, 1>>, <<0, 1>>, <<1, 2>>, <<1, 1>>, <<3, 2>>, <<2, 1>>}

(* Variant: speed_factor >= 1 *)
AboveOne_OrEqual(speed) == speed[1] >= speed[2]

(* speed_factor > 1 *)
AboveOne(speed) == speed[1] > speed[2]

(* count < min(limit, speed) *)
BelowMin(count, limit, speed) == count < limit /\ count * speed[2] < speed[1]

(* The macro files the player is given: saved from up to MaxRecords        *)
(* events, among them presses of one button at two places.                 *)
PlayEvents ==
  StorageEvents \cup {MouseButtonEvent(2, Position(6, 0), "LEFT", TRUE)}
PlayLogs == UNION {[1..n -> PlayEvents] : n \in 0..MaxRecords}

(* The errors of a load that play catches. *)
CaughtByPlay == {"FileNotFoundError", "JSONDecodeError"}

(* Variant: the countdown is shown before the file is loaded. *)
Play_Load_CountdownFirst(filename, speed) ==
  /\ p_pc = "idle"
  /\ LET r == load_from_file(fs[filename]) IN
       /\ result' = [op |-> "load_from_file", filename |-> filename,
                     raised |-> r.raised, value |-> r.value]
       /\ IF r.raised \in CaughtByPlay
            THEN /\ p_pc' = "idle"
                 /\ UNCHANGED p_events
            ELSE /\ p_pc' = "settle"
                 /\ p_events' = r.value.items
  /\ speed_factor' = speed
  /\ p_error' = "None"
  /\ ui_calls' = <<"replay">>
  /\ sleeps' = <<>>
  /\ out_calls' = <<>>
  /\ detections' = <<>>
  /\ UNCHANGED <<aside, dc, stale_clicks, recorder, threads, fs, dirs, storage_calls, p_i, skip_count,
                 last_action_time, last_click_positions>>

(* play(filename, speed_factor) is called:                                 *)
(* events = MacroStorage.load_from_file(filename); on FileNotFoundError or *)
(* json.JSONDecodeError the error is logged and play returns.              *)
Play_Load(filename, speed) ==
  /\ p_pc = "idle"
  /\ LET r == load_from_file(fs[filename]) IN
       /\ result' = [op |-> "load_from_file", filename |-> filename,
                     raised |-> r.raised, value |-> r.value]
       /\ IF r.raised \in CaughtByPlay
            THEN /\ p_pc' = "idle"
                 /\ UNCHANGED p_events
            ELSE /\ p_pc' = "countdown"
                 /\ p_events' = r.value.items
  /\ speed_factor' = speed
  /\ p_error' = "None"
  /\ ui_calls' = <<>>
  /\ sleeps' = <<>>
  /\ out_calls' = <<>>
  /\ detections' = <<>>
  /\ UNCHANGED <<aside, dc, stale_clicks, recorder, threads, fs, dirs, storage_calls, p_i, skip_count,
                 last_action_time, last_click_positions>>

(* self.ui.show_countdown("replay") *)
Play_Countdown ==
  /\ p_pc = "countdown"
  /\ p_pc' = "settle"
  /\ ui_calls' = Append(ui_calls, "replay")
  /\ UNCHANGED <<aside, dc, stale_clicks, recorder, threads, storage_vars, play_locals,
                 last_click_positions, p_error, sleeps, out_calls, detections>>

(* time.sleep(self.config.replay_delay) *)
Play_Settle ==
  /\ p_pc = "settle"
  /\ p_pc' = "start"
  /\ sleeps' = Append(sleeps, replay_delay)
  /\ UNCHANGED <<aside, dc, stale_clicks, recorder, threads, storage_vars, play_locals,
                 last_click_positions, p_error, ui_calls, out_calls, detections>>

(* Variant: the click memory is kept from one replay to the next. *)
Play_Start_KeepsMemory ==
  /\ p_pc = "start"
  /\ p_pc' = "loop"
  /\ now' = 1
  /\ last_action_time' = 1
  /\ stale_clicks' = [b \in DOMAIN last_click_positions |->
                        last_click_positions[b][2]]
  /\ skip_count' = 0
  /\ p_i' = 1
  /\ UNCHANGED <<aside, dc, recorder, mouse_listener, kbd_hooks, main_vars, m_vars,
                 k_vars, callbacks, delivered, tainted, moved, storage_vars,
                 p_events, speed_factor, p_error, play_history,
                 last_click_positions>>

(* start_time = time.time(); last_action_time = start_time;                *)
(* self.last_click_positions = {}; skip_count = 0.  The ticks of a replay  *)
(* are counted from its start_time, which is tick 1.                       *)
Play_Start ==
  /\ p_pc = "start"
  /\ p_pc' = "loop"
  /\ now' = 1
  /\ last_action_time' = 1
  /\ stale_clicks' = [b \in DOMAIN last_click_positions |->
                        last_click_positions[b][2]]
  /\ last_click_positions' = <<>>
  /\ skip_count' = 0
  /\ p_i' = 1
  /\ UNCHANGED <<aside, dc, recorder, mouse_listener, kbd_hooks, main_vars, m_vars,
                 k_vars, callbacks, delivered, tainted, moved, storage_vars,
                 p_events, speed_factor, p_error, play_history>>

(* The record the loop is at. *)
event_dict == p_events[p_i]

(* Variant: records of any action are candidates for skipping. *)
Play_Skip_AnyAction ==
  /\ p_pc = "loop"
  /\ p_i <= Len(p_events)
  /\ AboveOne(speed_factor)
  /\ BelowMin(skip_count, max_skips, speed_factor)
  /\ skip_count' = skip_count + 1
  /\ p_i' = p_i + 1
  /\ UNCHANGED <<aside, dc, stale_clicks, recorder, threads, storage_vars, p_pc, p_events,
                 speed_factor, last_action_time, last_click_positions,
                 p_error, play_history>>

(* A move record is skipped: speed_factor > 1, skip_count is below         *)
(* min(5, speed_factor), and random.random() came out below                *)
(* 1 - 1 / speed_factor, which it can whenever speed_factor > 1.           *)
Play_Skip ==
  /\ p_pc = "loop"
  /\ p_i <= Len(p_events)
  /\ AboveOne(speed_factor)
  /\ event_dict.action = "move"
  /\ BelowMin(skip_count, max_skips, speed_factor)
  /\ skip_count' = skip_count + 1
  /\ p_i' = p_i + 1
  /\ UNCHANGED <<aside, dc, stale_clicks, recorder, threads, storage_vars, p_pc, p_events,
                 speed_factor, last_action_time, last_click_positions,
                 p_error, play_history>>

(* Variant: the pace is taken from the record's timestamp. *)
wait_time_FromTimestamp(d, speed, elapsed) ==
  LET due == IF speed[1] > 0
               THEN speed[2] * d.timestamp - speed[1] * elapsed
               ELSE (0 - speed[2]) * d.timestamp + speed[1] * elapsed
  IN Max(0, due)

(* wait_time = max(0, event_dict["time_diff"] / speed_factor - elapsed),   *)
(* where elapsed = time.time() - last_action_time.  speed is a fraction    *)
(* with a numerator other than 0; the value is wait_time multiplied by the *)
(* absolute value of that numerator, which keeps it an integer.            *)
wait_time(d, speed, elapsed) ==
  LET due == IF speed[1] > 0
               THEN speed[2] * d.time_diff - speed[1] * elapsed
               ELSE (0 - speed[2]) * d.time_diff + speed[1] * elapsed
  IN Max(0, due)

(* Variant: time.sleep is called whatever wait_time is. *)
Sleep_Unguarded(wait) ==
  <<wait>>

(* if wait_time > 0: time.sleep(wait_time).  The calls of time.sleep made. *)
Sleep(wait) ==
  IF wait > 0 THEN <<wait>> ELSE <<>>

(* A sleep of wait_time, computed from the clock read at t1, can be over   *)
(* at t2: a sleep lasts at least as long as asked.  Both sides are         *)
(* multiplied by the absolute value of the numerator of speed_factor.      *)
SleptUntil(t1, t2) ==
  (IF speed_factor[1] > 0 THEN speed_factor[1] ELSE 0 - speed_factor[1])
      * (t2 - t1)
    >= wait_time(event_dict, speed_factor, t1 - last_action_time)

(* The clock readings of a record that is not skipped, as pairs <<t1,     *)
(* t2>>: for the first record the clock is read once, for last_action_time *)
(* (t1 = t2); for a later record it is read at t1, wait_time is slept when *)
(* positive, and it is read again at t2.                                   *)
ActionTimes ==
  IF p_i > 1
    THEN {tt \in Clock \X Clock : tt[1] <= tt[2] /\ SleptUntil(tt[1], tt[2])}
    ELSE {<<t, t>> : t \in Clock}

(* The calls of time.sleep a record that is not skipped makes when the     *)
(* clock reads t1 before the wait.                                         *)
Play_Wait(t1) ==
  IF p_i > 1
    THEN Sleep(wait_time(event_dict, speed_factor, t1 - last_action_time))
    ELSE <<>>

(* Variant: a press exactly double_click_threshold later still counts. *)
check_double_click_AtMost(memory, button, position, current_time) ==
  IF button \in DOMAIN memory
    THEN LET last_time == memory[button][1]
             last_pos == memory[button][2]
         IN /\ current_time - last_time <= double_click_threshold
            /\ distance_to2(position, last_pos)
                 < double_click_distance * double_click_distance
    ELSE FALSE

(* _check_double_click(button, position, current_time) on the click memory *)
(* given; the distance is compared through its square.                     *)
check_double_click(memory, button, position, current_time) ==
  IF button \in DOMAIN memory
    THEN LET last_time == memory[button][1]
             last_pos == memory[button][2]
         IN /\ current_time - last_time < double_click_threshold
            /\ distance_to2(position, last_pos)
                 < double_click_distance * double_click_distance
    ELSE FALSE

(* Variant: remembering a click forgets the other buttons. *)
remember_click_Forgetful(memory, button, click) ==
  [b \in {button} |-> click]

(* self.last_click_positions[button] = (current_time, position) *)
remember_click(memory, button, click) ==
  DictSet(memory, button, click)

(* Variant: a key record with event_type up presses the key. *)
execute_event_UpPresses(d, current_time, memory) ==
  LET same == [memory |-> memory, calls |-> <<>>, detected |-> <<>>,
               raised |-> "None"]
      position == Position(d.position.items[1], d.position.items[2])
      button == from_string(d.button)
  IN CASE d.action = "move" ->
            [same EXCEPT !.calls = <<[call |-> "move_mouse", with |-> position]>>]
       [] d.action = "press" ->
            IF button = "ValueError"
              THEN [same EXCEPT !.raised = "ValueError"]
              ELSE [same EXCEPT
                      !.detected = <<check_double_click(memory, button,
                                                        position, current_time)>>,
                      !.memory = remember_click(memory, button,
                                                <<current_time, position>>),
                      !.calls = <<[call |-> "press_mouse_button",
                                   with |-> button]>>]
       [] d.action = "release" ->
            IF button = "ValueError"
              THEN [same EXCEPT !.raised = "ValueError"]
              ELSE [same EXCEPT !.calls = <<[call |-> "release_mouse_button",
                                             with |-> button]>>]
       [] d.action = "scroll" ->
            [same EXCEPT !.calls = <<[call |-> "scroll_mouse",
                                      with |-> d.scroll]>>]
       [] d.action = "key" ->
            IF d.event_type = "down"
              THEN [same EXCEPT !.calls = <<[call |-> "press_key",
                                             with |-> d.key]>>]
            ELSE IF d.event_type = "up"
              THEN [same EXCEPT !.calls = <<[call |-> "press_key",
                                             with |-> d.key]>>]
            ELSE same
       [] OTHER -> same

(* A direct call of _check_double_click on a player whose click memory is  *)
(* the one given at the start.                                             *)
CheckDoubleClick(button, position, current_time) ==
  /\ dc' = [button |-> button, position |-> position,
            current_time |-> current_time,
            return |-> check_double_click(last_click_positions, button,
                                          position, current_time)]
  /\ UNCHANGED <<aside, stale_clicks, recorder, threads, storage_vars, p_pc,
                 play_locals, last_click_positions, p_error, play_history>>

(* Variant: a key record that is not "down" releases the key. *)
key_calls_ElseReleases(d) ==
  IF d.event_type = "down"
    THEN <<[call |-> "press_key", with |-> d.key]>>
    ELSE <<[call |-> "release_key", with |-> d.key]>>

(* The branch of _execute_event for a key record: press_key for "down",    *)
(* release_key for "up", nothing for any other event_type.                 *)
key_calls(d) ==
  IF d.event_type = "down"
    THEN <<[call |-> "press_key", with |-> d.key]>>
  ELSE IF d.event_type = "up"
    THEN <<[call |-> "release_key", with |-> d.key]>>
  ELSE <<>>

(* _execute_event(event_dict, current_time) with the click memory given:   *)
(* the click memory after it, the calls of the output adapter it makes,    *)
(* the double clicks it looks for, and the error it raises.                *)
execute_event(d, current_time, memory) ==
  LET same == [memory |-> memory, calls |-> <<>>, detected |-> <<>>,
               raised |-> "None"]
      position == Position(d.position.items[1], d.position.items[2])
      button == from_string(d.button)
  IN CASE d.action = "move" ->
            [same EXCEPT !.calls = <<[call |-> "move_mouse", with |-> position]>>]
       [] d.action = "press" ->
            IF button = "ValueError"
              THEN [same EXCEPT !.raised = "ValueError"]
              ELSE [same EXCEPT
                      !.detected = <<check_double_click(memory, button,
                                                        position, current_time)>>,
                      !.memory = remember_click(memory, button,
                                                <<current_time, position>>),
                      !.calls = <<[call |-> "press_mouse_button",
                                   with |-> button]>>]
       [] d.action = "release" ->
            IF button = "ValueError"
              THEN [same EXCEPT !.raised = "ValueError"]
              ELSE [same EXCEPT !.calls = <<[call |-> "release_mouse_button",
                                             with |-> button]>>]
       [] d.action = "scroll" ->
            [same EXCEPT !.calls = <<[call |-> "scroll_mouse",
                                      with |-> d.scroll]>>]
       [] d.action = "key" -> [same EXCEPT !.calls = key_calls(d)]
       [] OTHER -> same

(* Variant: a press found to be a double click is injected twice. *)
Play_Execute_DoubleOnDetect ==
  /\ p_pc = "loop"
  /\ p_i <= Len(p_events)
  /\ skip_count' = IF AboveOne(speed_factor) /\ event_dict.action = "move"
                     THEN 0 ELSE skip_count
  /\ IF p_i > 1 /\ speed_factor[1] = 0
       THEN /\ p_error' = "ZeroDivisionError"
            /\ p_pc' = "idle"
            /\ UNCHANGED <<now, last_action_time, last_click_positions,
                           out_calls, detections, p_i, sleeps>>
       ELSE \E tt \in ActionTimes :
              LET t == tt[2]
                  r == execute_event(event_dict, t, last_click_positions) IN
                /\ sleeps' = sleeps \o Play_Wait(tt[1])
                /\ now' = t
                /\ last_action_time' = t
                /\ last_click_positions' = r.memory
                /\ out_calls' = out_calls \o r.calls
                                \o (IF r.detected = <<TRUE>> THEN r.calls ELSE <<>>)
                /\ detections' = detections \o r.detected
                /\ p_error' = r.raised
                /\ p_pc' = IF r.raised = "None" THEN "loop" ELSE "idle"
                /\ p_i' = IF r.raised = "None" THEN p_i + 1 ELSE p_i
  /\ UNCHANGED <<aside, dc, stale_clicks, recorder, mouse_listener, kbd_hooks, main_vars, m_vars,
                 k_vars, callbacks, delivered, tainted, moved, storage_vars,
                 p_events, speed_factor, ui_calls>>

(* A record is not skipped: skip_count is reset if the record was a        *)
(* candidate for skipping, the wait is slept, last_action_time is set and  *)
(* the record is executed.  For a record after the first, time_diff /      *)
(* speed_factor raises ZeroDivisionError when speed_factor is 0.  An error *)
(* ends play at the record that raised it.                                 *)
Play_Execute ==
  /\ p_pc = "loop"
  /\ p_i <= Len(p_events)
  /\ skip_count' = IF AboveOne(speed_factor) /\ event_dict.action = "move"
                     THEN 0 ELSE skip_count
  /\ IF p_i > 1 /\ speed_factor[1] = 0
       THEN /\ p_error' = "ZeroDivisionError"
            /\ p_pc' = "idle"
            /\ UNCHANGED <<now, last_action_time, last_click_positions,
                           out_calls, detections, p_i, sleeps>>
       ELSE \E tt \in ActionTimes :
              LET t == tt[2]
                  r == execute_event(event_dict, t, last_click_positions) IN
                /\ sleeps' = sleeps \o Play_Wait(tt[1])
                /\ now' = t
                /\ last_action_time' = t
                /\ last_click_positions' = r.memory
                /\ out_calls' = out_calls \o r.calls
                /\ detections' = detections \o r.detected
                /\ p_error' = r.raised
                /\ p_pc' = IF r.raised = "None" THEN "loop" ELSE "idle"
                /\ p_i' = IF r.raised = "None" THEN p_i + 1 ELSE p_i
  /\ UNCHANGED <<aside, dc, stale_clicks, recorder, mouse_listener, kbd_hooks, main_vars, m_vars,
                 k_vars, callbacks, delivered, tainted, moved, storage_vars,
                 p_events, speed_factor, ui_calls>>

(* The loop is over; logger.info("Replay complete."); return. *)
Play_Return ==
  /\ p_pc = "loop"
  /\ p_i > Len(p_events)
  /\ p_pc' = "idle"
  /\ UNCHANGED <<aside, dc, stale_clicks, recorder, threads, storage_vars, play_locals,
                 last_click_positions, p_error, play_history>>

(* A player and the files it may be asked to play: one saved from a list   *)
(* of events, the other absent or not JSON.                                *)
PlayerInit ==
  /\ events = <<>>
  /\ InitThreads
  /\ \E log \in PlayLogs, other \in {Absent, Invalid} :
       fs = [f \in Filenames |->
               IF f = "macros/test.json"
                 THEN Json(json_dump(serializable_events(log)))
                 ELSE other]
  /\ dirs = {".", "macros"}
  /\ storage_calls = <<>>
  /\ result = NoResult
  /\ InitPlayer
  /\ InitAside

PlayCall ==
  \E filename \in Filenames, speed \in SpeedFactors : Play_Load(filename, speed)

PlayerNext ==
  \/ PlayCall
  \/ Play_Countdown
  \/ Play_Settle
  \/ Play_Start
  \/ Play_Skip
  \/ Play_Execute
  \/ Play_Return

PlayerSpec == PlayerInit /\ [][PlayerNext]_vars

(* ----- macro files that save_to_file did not write (core.py, 236-277) --- *)
(* play takes whatever JSON list the file holds.  The records of an edited *)
(* file: records as saved, and records as saved but for one entry -- an    *)
(* action _execute_event does not know, an event_type that is neither      *)
(* "down" nor "up", a button MouseButton does not have.                    *)
EditedRecords ==
  LET saved == json_dump(serializable_events(
                 <<MouseMoveEvent(1, Position(3, 4)),
                   MouseButtonEvent(1, Position(3, 4), "LEFT", TRUE),
                   MouseButtonEvent(1, Position(3, 4), "LEFT", FALSE),
                   KeyboardEvent(1, "a", TRUE)>>))
  IN {saved[1], saved[2], saved[4],
      [saved[1] EXCEPT !.action = "drag"],
      [saved[2] EXCEPT !.button = "Button.x1"],
      [saved[3] EXCEPT !.button = "Button.x1"],
      [saved[4] EXCEPT !.event_type = "hold"]}
EditedFiles == UNION {[1..n -> EditedRecords] : n \in 1..MaxRecords}

(* A player and an edited macro file. *)
DispatchInit ==
  /\ events = <<>>
  /\ InitThreads
  /\ \E records \in EditedFiles :
       fs = [f \in Filenames |->
               IF f = "macros/test.json" THEN Json(records) ELSE Absent]
  /\ dirs = {".", "macros"}
  /\ storage_calls = <<>>
  /\ result = NoResult
  /\ InitPlayer
  /\ InitAside

DispatchSpec == DispatchInit /\ [][PlayerNext]_vars

(* ------------------- _check_double_click on its own -------------------- *)
(* Click memories: for each of two buttons no press, or a press at tick 1  *)
(* at one of two places.  Calls: either button, at a place at distance 0,  *)
(* below, exactly at or above double_click_distance from those places, at  *)
(* a time below, exactly at or above double_click_threshold after tick 1.  *)
MemoryButtons == {"LEFT", "RIGHT"}
MemoryClicks == {<<1, Position(0, 0)>>, <<1, Position(3, 4)>>}
Memories == UNION {[B -> MemoryClicks] : B \in SUBSET MemoryButtons}
CallPositions == Positions \cup {Position(3, 0)}
CallTimes == {double_click_threshold, double_click_threshold + 1,
              double_click_threshold + 2}

DoubleClickInit ==
  /\ events = <<>>
  /\ InitThreads
  /\ InitStorage
  /\ p_pc = "idle"
  /\ p_events = <<>>
  /\ p_i = 0
  /\ speed_factor = <<1, 1>>
  /\ skip_count = 0
  /\ last_action_time = 0
  /\ last_click_positions \in Memories
  /\ p_error = "None"
  /\ ui_calls = <<>>
  /\ sleeps = <<>>
  /\ out_calls = <<>>
  /\ detections = <<>>
  /\ dc = NoCall
  /\ stale_clicks = <<>>
  /\ InitAside

DoubleClickNext ==
  \E button \in MemoryButtons, position \in CallPositions,
     current_time \in CallTimes :
    CheckDoubleClick(button, position, current_time)

DoubleClickSpec == DoubleClickInit /\ [][DoubleClickNext]_vars

(* ------------------------------ properties ----------------------------- *)
MouseStep == m_pc' # m_pc
KeyStep == k_pc' # k_pc
MainStep == main_pc' # main_pc
Throttle == <<events, last_recorded_pos, last_move_time>>
MinDistance2 == min_move_distance * min_move_distance
(* The running move callback is about to apply the throttle test to a     *)
(* sample that has a reference point.                                      *)
AtThrottle == m_pc = "mv_throttle" /\ last_recorded_pos # None
SampleDistance2 == distance_to2(m_position, last_recorded_pos)
SampleElapsed == m_current_time - last_move_time
Last(s) == s[Len(s)]

C2_BelowBothDropped ==
  [][ /\ (m_pc \in {"mv_check", "mv_distance"} /\ MouseStep /\ ~m_first
            /\ last_recorded_pos # None)
           => UNCHANGED Throttle
      /\ (AtThrottle /\ MouseStep
            /\ SampleDistance2 < MinDistance2
            /\ SampleElapsed < min_move_time)
           => /\ m_pc' = "idle"
              /\ ~m_error'
              /\ UNCHANGED Throttle
              /\ UNCHANGED delivered
    ]_vars

(* A sample below both thresholds is at the throttle test. *)
C2_Witness ==
  /\ AtThrottle
  /\ ~m_first
  /\ m_distance2 = SampleDistance2
  /\ SampleDistance2 < MinDistance2
  /\ SampleElapsed < min_move_time

(* C3: a non-first move sample whose distance exceeds the minimum         *)
(* distance or whose elapsed time exceeds the minimum interval appends     *)
(* exactly one MouseMoveEvent with the sample's position and arrival time, *)
(* and then the last-recorded position and time become the sample's.       *)
C3_AboveEitherRecorded ==
  [][ /\ (AtThrottle /\ MouseStep
            /\ (SampleDistance2 > MinDistance2 \/ SampleElapsed > min_move_time))
           => (m_pc' = "mv_lock" /\ UNCHANGED Throttle)
      /\ (m_pc = "mv_lock" /\ MouseStep)
           => (m_pc' = "mv_append" /\ UNCHANGED Throttle)
      /\ (m_pc = "mv_append" /\ MouseStep)
           => /\ events' = Append(events,
                              MouseMoveEvent(m_current_time, m_position))
              /\ m_pc' = "mv_set_pos"
              /\ UNCHANGED <<last_recorded_pos, last_move_time>>
      /\ (m_pc = "mv_set_pos" /\ MouseStep)
           => /\ last_recorded_pos' = m_position
              /\ m_pc' = "mv_set_time"
              /\ UNCHANGED <<events, last_move_time>>
      /\ (m_pc = "mv_set_time" /\ MouseStep)
           => /\ last_move_time' = m_current_time
              /\ m_pc' = "idle"
              /\ ~m_error'
              /\ UNCHANGED <<events, last_recorded_pos>>
    ]_vars

(* A sample that passed on elapsed time alone has been appended and has   *)
(* become the reference position.                                          *)
C3_Witness ==
  /\ m_pc = "mv_set_time"
  /\ m_distance2 <= MinDistance2
  /\ events # <<>>
  /\ Last(events) = MouseMoveEvent(m_current_time, m_position)
  /\ last_recorded_pos = m_position

(* C4 as stated: a non-first sample that is at least the minimum distance *)
(* away or at least the minimum interval late (equality included) is       *)
(* recorded.                                                               *)
C4_AtLeastEitherRecorded ==
  [][ (AtThrottle /\ MouseStep
         /\ (SampleDistance2 >= MinDistance2 \/ SampleElapsed >= min_move_time))
        => m_pc' = "mv_lock"
    ]_vars

(* C4 as amended: a non-first sample is recorded if and only if its       *)
(* distance strictly exceeds the minimum distance or its elapsed time      *)
(* strictly exceeds the minimum interval; a sample that only equals a      *)
(* threshold is dropped and the reference point stays.                     *)
C4_RecordedIffExceeds ==
  [][ (AtThrottle /\ MouseStep)
        => /\ (m_pc' = "mv_lock")
                <=> (SampleDistance2 > MinDistance2
                       \/ SampleElapsed > min_move_time)
           /\ (m_pc' # "mv_lock") => (m_pc' = "idle" /\ UNCHANGED Throttle)
           /\ UNCHANGED events
    ]_vars

(* A sample exactly at the minimum distance and exactly at the minimum    *)
(* interval is at the throttle test.                                       *)
C4_Witness ==
  /\ AtThrottle
  /\ m_distance2 = SampleDistance2
  /\ SampleDistance2 = MinDistance2
  /\ SampleElapsed = min_move_time

(* C5: every click callback and every key callback appends exactly one    *)
(* event (MouseButtonEvent with the given position, button and pressed     *)
(* flag; KeyboardEvent with the given key and pressed flag) stamped with   *)
(* the time read in the callback, whatever the throttle state, and leaves  *)
(* the last-recorded position and time unchanged.                          *)
C5_ClickAndKeyAlwaysRecorded ==
  [][ /\ (m_pc = "idle" /\ m_pc' = "ck_lock") => UNCHANGED Throttle
      /\ (m_pc = "ck_lock" /\ MouseStep)
           => (m_pc' = "ck_append" /\ UNCHANGED Throttle)
      /\ (m_pc = "ck_append" /\ MouseStep)
           => /\ events' = Append(events,
                    MouseButtonEvent(now', m_position, m_button, m_pressed))
              /\ m_pc' = "idle"
              /\ ~m_error'
              /\ UNCHANGED <<last_recorded_pos, last_move_time>>
      /\ (k_pc = "idle" /\ KeyStep) => UNCHANGED Throttle
      /\ (k_pc = "ky_lock" /\ KeyStep)
           => (k_pc' = "ky_append" /\ UNCHANGED Throttle)
      /\ (k_pc = "ky_append" /\ KeyStep)
           => /\ events' = Append(events, KeyboardEvent(now', k_key, k_pressed))
              /\ k_pc' = "idle"
              /\ UNCHANGED <<last_recorded_pos, last_move_time>>
    ]_vars

(* A click and a key event are in the log, the click appended last while  *)
(* the throttle holds a reference point.                                   *)
C5_Witness ==
  /\ m_pc = "idle"
  /\ k_pc = "idle"
  /\ last_recorded_pos # None
  /\ Len(events) = 2
  /\ events[1].class = "KeyboardEvent"
  /\ events[2] = MouseButtonEvent(now, Position(3, 4), "LEFT", TRUE)

(* C6 as stated: every scroll callback appends exactly one                *)
(* MouseScrollEvent with the given position, the given amount and the     *)
(* current time, and raises no error.                                      *)
C6_ScrollRecorded ==
  [][ (m_pc = "sc_append" /\ MouseStep)
        => /\ events' = Append(events,
                           MouseScrollEvent(now', m_position, m_amount))
           /\ ~m_error'
    ]_vars

(* The log without its scroll entries and without timestamps, as a bag. *)
IsLogged(e) == e.class # "MouseScrollEvent"
Logged == BagOfSeq(StripAll(SelectSeq(events, IsLogged)))

(* C7: in a recording that began with no callback in flight, whenever the *)
(* mouse thread and the keyboard thread are both between callbacks, the    *)
(* log holds exactly one entry for each click callback, each key callback  *)
(* and each move sample that passed the throttle: none missing, none       *)
(* twice.                                                                  *)
C7_NoneLostNoneDuplicated ==
  (m_pc = "idle" /\ k_pc = "idle" /\ ~tainted) => Logged = delivered

(* A recorded move of the mouse thread and a key event of the keyboard    *)
(* thread are both in the log, the key event first although the move was   *)
(* sampled before it.                                                      *)
C7_Witness ==
  /\ m_pc = "idle"
  /\ k_pc = "idle"
  /\ ~tainted
  /\ Len(events) = 2
  /\ events[1].class = "KeyboardEvent"
  /\ events[2].class = "MouseMoveEvent"
  /\ events[2].timestamp < events[1].timestamp

(* C8 as stated: the timestamps of the events in the log are in           *)
(* non-decreasing order in every reachable state.                          *)
C8_TimestampsNonDecreasing ==
  \A i \in 1..(Len(events) - 1) : events[i].timestamp <= events[i + 1].timestamp

C10_StopWhenIdleIsNoOp ==
  [][ ((~started \/ stops = 1)
         /\ main_pc \in {"idle", "st_keyboard"}
         /\ main_pc' \in {"idle", "st_keyboard"}
         /\ (MainStep \/ main_error' # main_error))
        => /\ UNCHANGED events
           /\ ~main_error'
           /\ mouse_listener' # "running"
           /\ kbd_hooks' = 0
    ]_vars

(* stop_recording has returned although start_recording was never called. *)
C10_Witness ==
  /\ ~started
  /\ stops = 1
  /\ main_pc = "idle"
  /\ ~main_error
  /\ mouse_listener = "None"
  /\ events = <<>>

(* C11 as stated: stop_recording tells the mouse adapter and then the     *)
(* keyboard adapter to stop listening, and the value it returns is the     *)
(* number of events in the log.                                            *)
C11_StopReturnsEventCount ==
  [][ (main_pc = "st_keyboard" /\ MainStep)
        => /\ calls = <<"mouse.stop_listening">>
           /\ mouse_listener' # "running"
           /\ kbd_hooks' = 0
           /\ main_return' = PyInt(Len(events'))
    ]_vars

(* C12 as stated: from the return of stop_recording until the next        *)
(* start_recording no step changes the log, a step of a callback that was  *)
(* already running on a capture thread included.                           *)
C12_FrozenAfterStop ==
  [][ stops = 1 => UNCHANGED events ]_vars

(* ------------------------- properties: storage ------------------------- *)
SavedFiles == {f \in Filenames : fs[f].kind = "json"}

(* C13: after save_recording, if the log is empty the codec was not       *)
(* called and no error was raised; otherwise MacroStorage.save_to_file was *)
(* called exactly once, with the whole log and the given filename.         *)
C13_SaveRecordingCallsCodecOnce ==
  result.op = "save_recording"
    => IF events = <<>>
         THEN storage_calls = <<>> /\ result.raised = "None"
         ELSE storage_calls =
                <<[events |-> events, filename |-> result.filename]>>

(* save_recording handed a log of three events to the codec, which wrote  *)
(* the file.                                                               *)
C13_Witness ==
  /\ result.op = "save_recording"
  /\ Len(events) = MaxLen
  /\ Len(storage_calls) = 1
  /\ result.raised = "None"
  /\ result.filename \in SavedFiles

(* C14 as stated: MacroStorage.save_to_file called with an empty list of  *)
(* events writes no file, creates no directory and raises no error.        *)
C14_SaveEmptyIsNoOp ==
  [][ (events = <<>> /\ SaveToFileCall)
        => /\ UNCHANGED <<fs, dirs>>
           /\ result'.raised = "None"
    ]_vars

(* C15: a file saved from a non-empty list holds one record per event, in *)
(* the order of the list; the first record has time_diff 0 and every later *)
(* record has the timestamp of its event minus that of the event before.   *)
C15_TimeDiffFromPrevious ==
  \A f \in SavedFiles :
    events # <<>> =>
      LET records == fs[f].records IN
        /\ Len(records) = Len(events)
        /\ \A i \in 1..Len(events) :
             /\ records[i].timestamp = events[i].timestamp
             /\ records[i].time_diff =
                  IF i = 1 THEN 0
                  ELSE events[i].timestamp - events[i - 1].timestamp

(* A saved file of three records whose time differences are 0, 1, -1. *)
C15_Witness ==
  \E f \in SavedFiles :
    /\ Len(fs[f].records) = 3
    /\ fs[f].records[2].time_diff = 1
    /\ fs[f].records[3].time_diff = -1

(* The loaded record d describes the same input as the event e: the same  *)
(* action, position coordinates, button or key, and pressed state.         *)
SameInput(d, e) ==
  CASE e.class = "MouseMoveEvent" ->
         /\ d.action = "move"
         /\ d.position.items = <<e.position[1], e.position[2]>>
    [] e.class = "MouseButtonEvent" ->
         /\ d.action = (IF e.pressed THEN "press" ELSE "release")
         /\ d.position.items = <<e.position[1], e.position[2]>>
         /\ from_string(d.button) = e.button
    [] e.class = "MouseScrollEvent" ->
         /\ d.action = "scroll"
         /\ d.position.items = <<e.position[1], e.position[2]>>
    [] e.class = "KeyboardEvent" ->
         /\ d.action = "key"
         /\ d.key = e.key
         /\ d.event_type = (IF e.pressed THEN "down" ELSE "up")

(* C16: the records returned by a successful load of a saved file are as  *)
(* many as the events saved and in the same order, and each describes the  *)
(* same input as its event.                                                *)
C16_RoundTrip ==
  (result.op = "load_from_file" /\ result.raised = "None")
    => LET loaded == result.value.items IN
         /\ Len(loaded) = Len(events)
         /\ \A i \in 1..Len(events) : SameInput(loaded[i], events[i])

(* A file saved from three events, two of them clicks of different        *)
(* buttons, was loaded; the positions came back as lists.                  *)
C16_Witness ==
  /\ result.op = "load_from_file"
  /\ result.raised = "None"
  /\ Len(result.value.items) = 3
  /\ events[1].class = "MouseButtonEvent" /\ events[1].button = "RIGHT"
  /\ events[2].class = "MouseButtonEvent" /\ events[2].button = "MIDDLE"
  /\ result.value.items[2].position = PyList(<<3, 4>>)

RECURSIVE SumTimeDiff(_, _)
SumTimeDiff(records, i) ==
  IF i = 0 THEN 0 ELSE SumTimeDiff(records, i - 1) + records[i].time_diff

(* C17: in a saved file the time_diff values of the records up to and     *)
(* including the one of an event add up to the timestamp of that event     *)
(* minus the timestamp of the first event.                                 *)
C17_TimeDiffsAddUp ==
  \A f \in SavedFiles :
    \A i \in 1..Len(fs[f].records) :
      SumTimeDiff(fs[f].records, i) = events[i].timestamp - events[1].timestamp

(* A saved file of three records whose time differences are 0, -1, 1. *)
C17_Witness ==
  \E f \in SavedFiles :
    /\ Len(fs[f].records) = 3
    /\ fs[f].records[2].time_diff = -1
    /\ fs[f].records[3].time_diff = 1

(* The wire record of an event according to the mapping table, without    *)
(* time_diff.                                                              *)
WireRecord(e) ==
  CASE e.class = "MouseMoveEvent" ->
         [action |-> "move", timestamp |-> e.timestamp,
          position |-> <<e.position[1], e.position[2]>>]
    [] e.class = "MouseButtonEvent" ->
         [action |-> IF e.pressed THEN "press" ELSE "release",
          timestamp |-> e.timestamp,
          button |-> CASE e.button = "LEFT" -> "Button.left"
                       [] e.button = "RIGHT" -> "Button.right"
                       [] e.button = "MIDDLE" -> "Button.middle",
          position |-> <<e.position[1], e.position[2]>>]
    [] e.class = "MouseScrollEvent" ->
         [action |-> "scroll", timestamp |-> e.timestamp,
          position |-> <<e.position[1], e.position[2]>>,
          scroll |-> e.scroll_amount]
    [] e.class = "KeyboardEvent" ->
         [action |-> "key", timestamp |-> e.timestamp, key |-> e.key,
          event_type |-> IF e.pressed THEN "down" ELSE "up"]

(* C18: every record of a saved file is the wire record of its event      *)
(* according to the mapping table, with time_diff as its only other field. *)
C18_WireRecords ==
  \A f \in SavedFiles :
    \A i \in 1..Len(fs[f].records) :
      /\ DOMAIN fs[f].records[i] = DOMAIN WireRecord(events[i]) \cup {"time_diff"}
      /\ \A k \in DOMAIN WireRecord(events[i]) :
           fs[f].records[i][k] = WireRecord(events[i])[k]

(* A saved file holds the records of a button release, a scroll and a key *)
(* event.                                                                  *)
C18_Witness ==
  \E f \in SavedFiles :
    /\ Len(fs[f].records) = 3
    /\ fs[f].records[1].action = "release"
    /\ fs[f].records[2].action = "scroll"
    /\ fs[f].records[3].action = "key"

(* C19: a load of an absent file raises FileNotFoundError, a load of a    *)
(* file whose content is not JSON raises json.JSONDecodeError, and neither *)
(* returns a list of records.                                              *)
C19_LoadFailsDistinctly ==
  result.op = "load_from_file"
    => /\ fs[result.filename] = Absent
            => result.raised = "FileNotFoundError" /\ result.value = PyNone
       /\ fs[result.filename] = Invalid
            => result.raised = "JSONDecodeError" /\ result.value = PyNone

(* A load of a file left truncated by a failed write raised               *)
(* json.JSONDecodeError.                                                   *)
C19_Witness ==
  /\ result.op = "load_from_file"
  /\ fs[result.filename] = Invalid
  /\ result.raised = "JSONDecodeError"

(* -------------------------- properties: player ------------------------- *)
(* C20: a call of play whose file is absent or does not hold JSON returns *)
(* at once and normally: no countdown is shown, the settle delay is not    *)
(* slept, the output adapter is not called and the click memory is left    *)
(* as it was.                                                              *)
C20_FailedLoadPlaysNothing ==
  [][ (/\ p_pc = "idle"
       /\ result'.op = "load_from_file"
       /\ fs[result'.filename].kind \in {"absent", "invalid"})
        => /\ p_pc' = "idle"
           /\ p_error' = "None"
           /\ ui_calls' = <<>>
           /\ sleeps' = <<>>
           /\ out_calls' = <<>>
           /\ UNCHANGED last_click_positions
    ]_vars

(* A replay that pressed a button has left a click in the memory; the     *)
(* next call of play, on a file that is not JSON, has returned.            *)
C20_Witness ==
  /\ p_pc = "idle"
  /\ result.op = "load_from_file"
  /\ result.raised = "JSONDecodeError"
  /\ p_error = "None"
  /\ last_click_positions # <<>>
  /\ ui_calls = <<>>
  /\ out_calls = <<>>

(* C21 as stated: at a speed_factor above 1, whole or fractional, the      *)
(* number of move records skipped since the last executed move never       *)
(* exceeds min(5, speed_factor).                                           *)
C21_SkipRunBounded ==
  (p_pc = "loop" /\ AboveOne(speed_factor))
    => /\ skip_count <= max_skips
       /\ skip_count * speed_factor[2] <= speed_factor[1]

(* The records the loop has dealt with, and the indices of those that are *)
(* not moves.                                                              *)
Dealt == 1..(p_i - 1)
NonMoves == {i \in Dealt : p_events[i].action # "move"}
IsMoveCall(c) == c.call = "move_mouse"

OutputCall(d) ==
  CASE d.action = "move" ->
         [call |-> "move_mouse", with |-> <<d.position.items[1], d.position.items[2]>>]
    [] d.action = "press" ->
         [call |-> "press_mouse_button",
          with |-> CASE d.button = "Button.left" -> "LEFT"
                     [] d.button = "Button.right" -> "RIGHT"
                     [] d.button = "Button.middle" -> "MIDDLE"]
    [] d.action = "release" ->
         [call |-> "release_mouse_button",
          with |-> CASE d.button = "Button.left" -> "LEFT"
                     [] d.button = "Button.right" -> "RIGHT"
                     [] d.button = "Button.middle" -> "MIDDLE"]
    [] d.action = "scroll" -> [call |-> "scroll_mouse", with |-> d.scroll]
    [] d.action = "key" ->
         [call |-> IF d.event_type = "down" THEN "press_key" ELSE "release_key",
          with |-> d.key]

(* The output calls of the records with index in K up to n, in file order. *)
RECURSIVE CallsOf(_, _)
CallsOf(K, n) ==
  IF n = 0 THEN <<>>
  ELSE CallsOf(K, n - 1)
         \o (IF n \in K THEN <<OutputCall(p_events[n])>> ELSE <<>>)

C24_OneCallPerRecord ==
  (p_pc = "loop" /\ speed_factor = <<1, 1>>)
    => out_calls = CallsOf(Dealt, p_i - 1)

(* At speed 1.0 a file of a key-up record and a scroll record has been     *)
(* replayed to its end.                                                    *)
C24_Witness ==
  /\ p_pc = "loop"
  /\ speed_factor = <<1, 1>>
  /\ p_i = Len(p_events) + 1
  /\ out_calls = <<[call |-> "release_key", with |-> "a"],
                   [call |-> "scroll_mouse", with |-> 1]>>

(* ----------------------- properties: double click ---------------------- *)
(* C25: _check_double_click returns true exactly when the click memory     *)
(* holds a press of the same button, less than double_click_threshold      *)
(* before the given time and less than double_click_distance from the      *)
(* given position; a press of another button in the memory does not count. *)
C25_DoubleClickIff ==
  dc # NoCall
    => (dc.return
          <=> /\ dc.button \in DOMAIN last_click_positions
              /\ LET before == last_click_positions[dc.button] IN
                   /\ dc.current_time - before[1] < double_click_threshold
                   /\ distance_to2(dc.position, before[2])
                        < double_click_distance * double_click_distance)

(* A press was found to be a double click of a press 14 ticks earlier, 4   *)
(* pixels away, while the memory also holds a press of the other button.   *)
C25_Witness ==
  /\ dc # NoCall
  /\ dc.return
  /\ DOMAIN last_click_positions = MemoryButtons
  /\ dc.position = Position(3, 0)
  /\ last_click_positions[dc.button][2] = Position(3, 4)

(* ------------------ properties: presses and click memory --------------- *)
IsPress(d) == d.action = "press"
IsPressCall(c) == c.call = "press_mouse_button"
Presses == SelectSeq(SubSeq(p_events, 1, p_i - 1), IsPress)
PressCalls == SelectSeq(out_calls, IsPressCall)

(* C26: what _check_double_click finds does not change what is injected:   *)
(* the calls made are the calls of the records executed, and every press   *)
(* record has made exactly one press_mouse_button call, for its own        *)
(* button, whether it was found to be a double click or not.               *)
C26_DetectionInjectsNothing ==
  p_pc = "loop"
    => /\ Len(detections) = Len(Presses)
       /\ Len(PressCalls) = Len(Presses)
       /\ \A k \in 1..Len(Presses) : PressCalls[k] = OutputCall(Presses[k])
       /\ \E K \in SUBSET Dealt : out_calls = CallsOf(K, p_i - 1)

(* Two presses of the left button at the same place: the second was found  *)
(* to be a double click, and two press calls were made.                    *)
C26_Witness ==
  /\ p_pc = "loop"
  /\ detections = <<FALSE, TRUE>>
  /\ out_calls = <<[call |-> "press_mouse_button", with |-> "LEFT"],
                   [call |-> "press_mouse_button", with |-> "LEFT"]>>

(* C27: a step of the loop that executes a press record for button b at    *)
(* time t and position p leaves click-memory[b] = (t, p) and every other    *)
(* button's entry as it was, whether or not a double click was found; any   *)
(* other step of the loop (a skipped move, an executed move, release,       *)
(* scroll or key record) leaves the click memory as it was.                 *)
C27_PressSetsMemory ==
  [][(p_pc = "loop" /\ p_i <= Len(p_events))
       => IF event_dict.action = "press" /\ p_i' = p_i + 1
            THEN LET b == OutputCall(event_dict).with
                     p == <<event_dict.position.items[1],
                            event_dict.position.items[2]>>
                 IN /\ DOMAIN last_click_positions'
                          = DOMAIN last_click_positions \cup {b}
                    /\ last_click_positions'[b] = <<last_action_time', p>>
                    /\ \A o \in DOMAIN last_click_positions \ {b} :
                          last_click_positions'[o] = last_click_positions[o]
            ELSE last_click_positions' = last_click_positions]_vars

(* A press of the middle button was executed after a press of the left     *)
(* button: the memory holds both, the left one as it was.                   *)
C27_Witness ==
  /\ p_pc = "loop"
  /\ p_i = 3
  /\ DOMAIN last_click_positions = {"LEFT", "MIDDLE"}
  /\ p_events[2].button = "Button.middle"
  /\ last_click_positions["LEFT"][1] < last_click_positions["MIDDLE"][1]
  /\ detections = <<FALSE, FALSE>>

(* ------------------- properties: the mouse input adapter --------------- *)
HandlerRuns == raw.kind # "-" /\ raw'.kind = "-"
EntryOf(kind) ==
  CASE kind = "move" -> "mv_check"
    [] kind = "click" -> "ck_lock"
    [] kind = "scroll" -> "sc_lock"

(* C28: a move, click or scroll sample with x < 0, x >= screen_width,      *)
(* y < 0 or y >= screen_height is not forwarded: no callback of the        *)
(* recorder is called, and the log and the throttle state stay as they     *)
(* are.  A sample on the screen (with a known button, for a click) is      *)
(* forwarded once: one callback is called, with the sample's position.     *)
C28_OffScreenNotForwarded ==
  [][HandlerRuns
       => IF \/ raw.x < 0 \/ raw.x >= screen_width
             \/ raw.y < 0 \/ raw.y >= screen_height
            THEN /\ m_pc' = "idle"
                 /\ callbacks' = callbacks
                 /\ UNCHANGED <<events, last_recorded_pos, last_move_time,
                                delivered, m_position>>
            ELSE \/ raw.kind = "click" /\ raw.button = "Button.x1"
                 \/ /\ m_pc' = EntryOf(raw.kind)
                    /\ callbacks' = callbacks + 1
                    /\ m_position' = <<raw.x, raw.y>>]_vars

(* The last handler returned without calling the recorder and without a   *)
(* warning (its sample was off the screen), after two moves on the screen  *)
(* were forwarded and the second was logged.                               *)
C28_Witness ==
  /\ raw.kind = "-"
  /\ raw.last = "returned"
  /\ ~raw.logged
  /\ m_pc = "idle"
  /\ Len(events) = 1
  /\ events[1].class = "MouseMoveEvent"
  /\ callbacks = 2

(* C29: a click on the screen whose button MouseButton does not know is    *)
(* dropped: the click callback is not called, nothing is raised on the     *)
(* listener thread, the log stays as it is, and the listener keeps         *)
(* running, so that later clicks are still handled.                        *)
C29_UnknownButtonDropped ==
  [][(HandlerRuns /\ raw.kind = "click" /\ raw.button = "Button.x1")
       => /\ m_pc' = "idle"
          /\ m_error' = m_error
          /\ callbacks' = callbacks
          /\ mouse_listener' = "running"
          /\ UNCHANGED <<events, delivered>>]_vars

(* After a click with an unknown button was dropped with a warning, a      *)
(* click of the left button was handled and is in the log.                 *)
C29_Witness ==
  /\ raw.logged
  /\ raw.last = "forwarded"
  /\ callbacks = 1
  /\ Len(events) = 1
  /\ events[1].class = "MouseButtonEvent"
  /\ events[1].button = "LEFT"

(* ------------------------ properties: command line --------------------- *)
(* C30: when a recording that holds at least one event is interrupted by   *)
(* Ctrl+C, the process does not exit before the recorder is stopped and    *)
(* the recorded events are handed to the storage.                          *)
C30_InterruptedRecordingSaved ==
  (cli_pc = "exited" /\ events # <<>>)
    => /\ mouse_listener # "running"
       /\ storage_calls # <<>>

(* C31: however a recording run ends after start_recording has begun, when *)
(* the process exits the mouse listener has been stopped and no keyboard   *)
(* hook is installed.                                                      *)
C31_NoHookLeftAtExit ==
  (cli_pc = "exited" /\ started)
    => /\ mouse_listener # "running"
       /\ kbd_hooks = 0

(* C32: a save that fails raises the error to its caller and leaves every  *)
(* file as it was: the target holds its complete previous content, or does *)
(* not exist if it did not exist before.                                   *)
C32_FailedSaveLeavesNoPartialFile ==
  [][ (SaveToFileCall /\ result'.raised # "None")
        => /\ result'.raised = "OSError"
           /\ fs' = fs
    ]_vars

(* ------------------------ properties: event classes -------------------- *)
(* C33: for an event e of any of the four classes, from_dict(to_dict(e))   *)
(* raises nothing and is an event of the same class with the same          *)
(* timestamp, position, button, key, scroll amount and pressed flag.       *)
C33_FromDictOfToDict ==
  result.op = "from_dict"
    => /\ result.raised = "None"
       /\ DOMAIN result.value = DOMAIN events[1]
       /\ \A f \in DOMAIN events[1] : result.value[f] = events[1][f]

(* A release of the middle button has made the round trip. *)
C33_Witness ==
  /\ result.op = "from_dict"
  /\ events[1].class = "MouseButtonEvent"
  /\ events[1].button = "MIDDLE"
  /\ ~events[1].pressed
  /\ result.value = events[1]

(* ---------------------- properties: replay pacing ---------------------- *)
(* C34: the pace of a replay depends only on the stored time_diff.  At     *)
(* every record the loop reaches, a record that differs from it in its     *)
(* timestamp alone is treated alike: the same decision on skipping, the    *)
(* same wait for every reading of the clock, and the same output calls,    *)
(* click memory and error for every time of the action.  Two lists that    *)
(* differ in timestamps alone therefore replay step by step alike.         *)
C34_PaceIgnoresTimestamps ==
  (p_pc = "loop" /\ p_i <= Len(p_events)) =>
    \A ts \in {0, MaxTime + 1} :
      LET other == [event_dict EXCEPT !.timestamp = ts] IN
        /\ (other.action = "move") = (event_dict.action = "move")
        /\ speed_factor[1] # 0 =>
              \A t1 \in Clock :
                wait_time(other, speed_factor, t1 - last_action_time)
                  = wait_time(event_dict, speed_factor, t1 - last_action_time)
        /\ \A t \in Clock :
              execute_event(other, t, last_click_positions)
                = execute_event(event_dict, t, last_click_positions)

(* The second record of a file, whose timestamp is not its time_diff, was  *)
(* waited for at normal speed and executed.                                *)
C34_Witness ==
  /\ p_pc = "loop"
  /\ p_i = 3
  /\ speed_factor = <<1, 1>>
  /\ Len(sleeps) = 2
  /\ p_events[2].timestamp # p_events[2].time_diff
  /\ Len(out_calls) = 2

(* C35: for a record after the first that is not skipped, the loop sleeps  *)
(* max(0, time_diff / speed_factor - elapsed), elapsed being the time      *)
(* since the previous action was issued: when that shortfall is positive   *)
(* time.sleep is called once with it and lasts at least as long; when it   *)
(* is zero or negative time.sleep is not called and the record is executed *)
(* at once, waiting raising no error.  No sleep of zero or negative        *)
(* duration is ever requested.  Durations are multiplied by the absolute   *)
(* value of the numerator of speed_factor.                                 *)
C35_WaitIsTheShortfall ==
  [][ (Play_Execute /\ p_i > 1 /\ speed_factor[1] # 0) =>
        /\ \E t1 \in now..now' :
              LET n == speed_factor[1]
                  abs == IF n > 0 THEN n ELSE 0 - n
                  shortfall ==
                    IF n > 0
                      THEN speed_factor[2] * event_dict.time_diff
                             - abs * (t1 - last_action_time)
                      ELSE (0 - speed_factor[2]) * event_dict.time_diff
                             - abs * (t1 - last_action_time)
              IN IF shortfall > 0
                   THEN /\ sleeps' = Append(sleeps, shortfall)
                        /\ abs * (now' - t1) >= shortfall
                   ELSE sleeps' = sleeps
        /\ \A k \in DOMAIN sleeps' : sleeps'[k] > 0
        /\ p_error' = execute_event(event_dict, now', last_click_positions).raised
    ]_vars

(* At one and a half times the speed the second record, one tick after     *)
(* the first, was waited for two thirds of a tick and then executed.       *)
C35_Witness ==
  /\ p_pc = "loop"
  /\ p_i = 3
  /\ speed_factor = <<3, 2>>
  /\ sleeps = <<replay_delay, 2>>
  /\ p_error = "None"

(* C36: the click memory is emptied at the start of every run of play that *)
(* loaded its file, so the first press of a button in a run is never found *)
(* to be a double click, whatever an earlier run on the same player        *)
(* pressed.                                                                *)
C36_MemoryEmptiedAtStart ==
  [][ /\ (p_pc = "start" /\ p_pc' = "loop") => last_click_positions' = <<>>
      /\ (/\ p_pc = "loop"
          /\ p_i <= Len(p_events)
          /\ event_dict.action = "press"
          /\ \A k \in 1..(p_i - 1) :
                ~(/\ p_events[k].action = "press"
                  /\ p_events[k].button = event_dict.button))
           => detections' # Append(detections, TRUE)
    ]_vars

(* An earlier run on the player pressed the left button at a place; the    *)
(* next run began with a press of the same button at the same place, which *)
(* was not found to be a double click.                                     *)
C36_Witness ==
  /\ p_pc = "loop"
  /\ p_i = 2
  /\ p_events[1].action = "press"
  /\ from_string(p_events[1].button) = "LEFT"
  /\ "LEFT" \in DOMAIN stale_clicks
  /\ stale_clicks["LEFT"] = Position(p_events[1].position.items[1],
                                     p_events[1].position.items[2])
  /\ detections = <<FALSE>>
  /\ out_calls = <<[call |-> "press_mouse_button", with |-> "LEFT"]>>

(* C39: whatever speed_factor play is given, a call that loaded its file   *)
(* ends normally and after the last record: it raises nothing and the loop *)
(* has dealt with every record.                                            *)
C39_ReplayCompletes ==
  (/\ p_pc = "idle"
   /\ result.op = "load_from_file"
   /\ result.raised = "None")
    => /\ p_error = "None"
       /\ p_i = Len(p_events) + 1

(* ------------------ properties: records play cannot use ---------------- *)
(* C40: a record that reaches _execute_event with an action that is none   *)
(* of move, press, release, scroll and key, or a key record whose          *)
(* event_type is neither "down" nor "up", makes no call of the output      *)
(* adapter, leaves the click memory as it is and raises nothing: the loop  *)
(* goes on to the next record.  A press or release record that names a     *)
(* button MouseButton does not have makes no call of the output adapter.   *)
C40_UnusableRecordsDoNothing ==
  [][ (Play_Execute /\ ~(p_i > 1 /\ speed_factor[1] = 0)) =>
        /\ (\/ event_dict.action
                 \notin {"move", "press", "release", "scroll", "key"}
             \/ /\ event_dict.action = "key"
                /\ event_dict.event_type \notin {"down", "up"})
              => /\ out_calls' = out_calls
                 /\ last_click_positions' = last_click_positions
                 /\ p_error' = "None"
                 /\ p_pc' = "loop"
                 /\ p_i' = p_i + 1
        /\ (/\ event_dict.action \in {"press", "release"}
             /\ event_dict.button \notin {MouseButton[b] : b \in DOMAIN MouseButton})
              => out_calls' = out_calls
    ]_vars

(* A key record with event_type "hold" was passed over, and the press      *)
(* record after it was replayed.                                           *)
C40_Witness ==
  /\ p_pc = "loop"
  /\ p_i = 3
  /\ p_events[1].action = "key"
  /\ p_events[1].event_type = "hold"
  /\ p_events[2].action = "press"
  /\ out_calls = <<[call |-> "press_mouse_button", with |-> "LEFT"]>>
  /\ p_error = "None"

(* -------------------- properties: the session lock --------------------- *)
(* C37 as stated: the event log, the last-recorded position and the        *)
(* last-recorded time are written only while the session lock is held: no  *)
(* step changes one of them with the lock free.                            *)
C37_SessionStateOnlyUnderLock ==
  [][ ~UNCHANGED Throttle => lock # "free" ]_vars

(* C38: the session lock is held exactly while a callback is inside its    *)
(* locked section, where it can always go on: a callback that has ended,   *)
(* by returning or by raising inside the locked section, holds no lock,    *)
(* so a callback waiting for the lock is never kept waiting by one that is *)
(* gone.                                                                   *)
C38_LockHeldOnlyInsideWith ==
  /\ lock \in {"free", "mouse", "keyboard"}
  /\ lock = "mouse" <=> m_pc \in {"mv_append", "ck_append", "sc_append"}
  /\ lock = "keyboard" <=> k_pc = "ky_append"

(* The scroll callback raised inside its locked section and is gone; the   *)
(* key callback after it has taken the lock.                               *)
C38_Witness ==
  /\ m_error
  /\ m_pc = "idle"
  /\ k_pc = "ky_append"
  /\ lock = "keyboard"


====
